---- MODULE Spec2Model ----
(***************************************************************************)
(* Retrieval & Grounding Engine of AI-Powered_360_Learning (FastAPI        *)
(* backend).  The state machines of this module:                           *)
(*   SpecIndex  - indexing jobs writing the content_chunks table           *)
(*                (indexing_service.py, content_processing_service.py,     *)
(*                routes/content.py)                                       *)
(*   SpecSearch - search_chunks / _keyword_search / hybrid_search          *)
(*                (retrieval_service.py)                                   *)
(*   SpecEmbed  - the embedding provider (embedding_service.py)            *)
(*   SpecGround - _verify_grounding (chat_service.py)                      *)
(*   SpecChunk  - chunk_text / _chunk_text                                 *)
(*   SpecCode   - chunk_code, index_content of a source file, search_code  *)
(*   SpecRequest- the request models of POST /semantic and /hybrid         *)
(*   SpecUpload - the upload routes and their background indexing task     *)
(* Scores and weights are kept in tenths (0.6 is 6), combined scores in    *)
(* hundredths.                                                             *)
(***************************************************************************)
EXTENDS Integers, Sequences, FiniteSets, TLC

\* ------------------------------------------------------------------ bounds
MaxJobs == 2
MaxChunks == 1

VARIABLES
    \* --- the database (system of record)
    content,          \* ids of the rows of table 'content'
    content_chunks,   \* rows of table 'content_chunks'
    doc_embedding,    \* ids of the content rows whose 'embedding' column is set
    \* --- indexing jobs (coroutines of the event loop), one per job id
    kind,             \* which entry point started the job
    doc,              \* its content_id
    total,            \* len(chunks) of the run
    pc,               \* where the coroutine is suspended
    idx,              \* loop variable i (next chunk to embed and store)
    chunks_stored,    \* chunks_stored / len(stored_chunks)
    errors,           \* the errors list of index_content
    result,           \* the returned summary
    \* --- observation of the run (not program state)
    attempts,         \* per job: how often each chunk index was attempted
    failed,           \* per job: chunk attempts whose embedding or insert raised
    alone             \* per job: no other job of the same document was active
                      \* at any time since the job started

idxVars == <<content, content_chunks, doc_embedding, kind, doc, total, pc, idx,
             chunks_stored, errors, result, attempts, failed, alone>>

VARIABLES
    \* --- the corpus a search runs against, as seen by one fixed query
    sim,              \* chunk id -> cosine similarity to the query (tenths)
    cnt,              \* chunk id -> term -> occurrences of the term in chunk_text
    fields,           \* content id -> the columns (title, description, topic)
                      \* that contain the query
    \* --- the last search call
    sreq,             \* its arguments and the outcomes of its backend calls
    sres              \* what it returned, or that it raised

searchVars == <<sim, cnt, fields, sreq, sres>>

VARIABLES
    \* --- one call into the embedding service
    ecall,            \* the call: api, task_type, texts, batch_size
    epc,              \* idle, post1 / post2 (awaiting the first / second POST), done
    eposts,           \* the responses of the POSTs of the current _call_hf_api
    ebatch,           \* embed_batch: loop variable i (start of the current batch)
    eacc,             \* embed_batch: all_embeddings
    eout,             \* what the call returned, or the exception it raised
    eprev             \* the first fallback vector an earlier single-text call
                      \* returned, with the text and task_type it was for

embedVars == <<ecall, epc, eposts, ebatch, eacc, eout, eprev>>

VARIABLES
    \* --- one call of ChatService._verify_grounding
    ground            \* [pc, response, sources, result]; [pc |-> "off"] when not in use

\* idle, done
gpc == ground.pc

\* the answer text (a sequence of characters)
gresponse == ground.response

\* the candidate sources, in order
gsources == ground.sources

\* the dictionary it returned
gresult == ground.result

groundVars == <<ground>>

VARIABLES
    \* --- one call of a text chunker
    chunker           \* [text, cfg, pc, op, chunks]

\* the text to chunk
ctext == chunker.text

\* chunk_size, chunk_overlap, min_chunk_size of the ChunkingService
ccfg == chunker.cfg

\* idle, done
cpc == chunker.pc

\* the chunker called: chunk_text or _chunk_text
cop == chunker.op

\* the chunks it returned
cchunks == chunker.chunks

chunkVars == <<chunker>>

VARIABLES
    \* --- one call of ChunkingService.chunk_code
    coder             \* [lines, language, pc, result, stored, search, found]

\* the lines of the source file, code.split('\n')
klines == coder.lines

\* the language argument
klanguage == coder.language

\* idle, done (chunk_code returned), indexed, searched
kpc == coder.pc

\* the chunks returned, or the exception raised
kresult == coder.result

\* the content_chunks rows index_content stored for the file
kstored == coder.stored

\* the arguments of the search_code call
ksearch == coder.search

\* what search_code returned, or the exception it raised
kfound == coder.found

codeVars == <<coder>>

VARIABLES
    \* --- one request to POST /semantic or POST /hybrid
    request           \* [route, body, pc, call, response]

\* the route the request is sent to
rroute == request.route

\* the fields of the request body
rbody == request.body

\* received, handler, done
qpc == request.pc

\* the call made on the retrieval service, if any
rcall == request.call

\* the HTTP status answered
rresponse == request.response

requestVars == <<request>>

VARIABLES
    \* --- one upload request and the background task it creates
    upl               \* [route, pc, row, stored, task, response], the inputs of the run in 'env'

uploadVars == <<upl>>

\* the variables of the services that keep no state between calls
pureVars == <<groundVars, chunkVars, codeVars, requestVars, uploadVars>>

DocSeq == <<"d1", "d2">>
Docs == {DocSeq[n] : n \in DOMAIN DocSeq}
Jobs == 1..MaxJobs
Outcomes == {"ok", "raise"}
IndexKinds == {"index", "reindex"}
NoDoc == "none"

\* ------------------------------------------------------------ table helpers
Row(d, i, j, e) ==
    [content_id |-> d, chunk_index |-> i, run |-> j, embedded |-> e]

RowsOf(tbl, d) == {r \in tbl : r.content_id = d}

DeleteChunksSkipped(tbl, d) == tbl

\* supabase.table('content_chunks').delete().eq('content_id', d).execute()
DeleteChunks(tbl, d) == {r \in tbl : r.content_id # d}

ChunkError(i) == [what |-> "chunk", i |-> i]
DocError == [what |-> "document", i |-> 0]

\* A job of document d is suspended at an await (started and not returned).
Active(j) == pc[j] \in {"embed", "docembed"}
ActiveOn(d) == {j \in Jobs : Active(j) /\ doc[j] = d}
StartedOn(d) == {j \in Jobs : pc[j] # "idle" /\ doc[j] = d}

\* Job ids are handed out in order: j is the next unused one.
Fresh(j) == pc[j] = "idle" /\ \A k \in Jobs : k < j => pc[k] # "idle"

\* Content ids are new on upload (uuid4); they are taken from DocSeq in order.
NewId(d) == \E n \in DOMAIN DocSeq :
    /\ DocSeq[n] = d
    /\ d \notin content
    /\ \A m \in 1..(n - 1) : DocSeq[m] \in content

\* Bookkeeping of `alone` when job j starts on document d.
AloneAtStart(j, d) ==
    [k \in Jobs |-> IF k = j THEN ActiveOn(d) = {}
                    ELSE IF k \in StartedOn(d) THEN FALSE ELSE alone[k]]

IndexIdle ==
    /\ content = {}
    /\ content_chunks = {}
    /\ doc_embedding = {}
    /\ kind = [j \in Jobs |-> "none"]
    /\ doc = [j \in Jobs |-> NoDoc]
    /\ total = [j \in Jobs |-> 0]
    /\ pc = [j \in Jobs |-> "idle"]
    /\ idx = [j \in Jobs |-> 0]
    /\ chunks_stored = [j \in Jobs |-> 0]
    /\ errors = [j \in Jobs |-> <<>>]
    /\ result = [j \in Jobs |-> [success |-> FALSE]]
    /\ attempts = [j \in Jobs |-> [i \in 0..(MaxChunks - 1) |-> 0]]
    /\ failed = [j \in Jobs |-> 0]
    /\ alone = [j \in Jobs |-> TRUE]

SearchIdle ==
    /\ sim = [c \in {} |-> 0]
    /\ cnt = [c \in {} |-> 0]
    /\ fields = [d \in {} |-> {}]
    /\ sreq = [op |-> "none"]
    /\ sres = [status |-> "none", rows |-> <<>>]

EmbedIdle ==
    /\ ecall = [api |-> "none"]
    /\ epc = "idle"
    /\ eposts = <<>>
    /\ ebatch = 0
    /\ eacc = <<>>
    /\ eout = [status |-> "none"]
    /\ eprev = [set |-> FALSE]

GroundIdle == ground = [pc |-> "off"]

ChunkIdle == chunker = [pc |-> "off"]

CodeIdle == coder = [pc |-> "off"]

RequestIdle == request = [pc |-> "off"]

UploadIdle == upl = [pc |-> "off"]

PureIdle == GroundIdle /\ ChunkIdle /\ CodeIdle /\ RequestIdle /\ UploadIdle

InitIndex == IndexIdle /\ SearchIdle /\ EmbedIdle /\ PureIdle

\* ---------------------------------------------------------- index_content
\* The synchronous head of index_content, up to its first await: fetch the
\* content row, chunk the text, delete the existing chunks (tbl is the table
\* as the caller left it).
IndexHead(j, d, n, tbl) ==
    /\ doc' = [doc EXCEPT ![j] = d]
    /\ total' = [total EXCEPT ![j] = IF d \in content THEN n ELSE 0]
    /\ alone' = AloneAtStart(j, d)
    /\ UNCHANGED <<content, doc_embedding, idx, chunks_stored, errors, attempts, failed>>
    /\ IF d \notin content
       THEN /\ pc' = [pc EXCEPT ![j] = "done"]
            /\ result' = [result EXCEPT ![j] =
                   [success |-> FALSE, error |-> "Content not found"]]
            /\ content_chunks' = tbl
       ELSE IF n = 0
       THEN /\ pc' = [pc EXCEPT ![j] = "done"]
            /\ result' = [result EXCEPT ![j] =
                   [success |-> FALSE, error |-> "No content to index"]]
            /\ content_chunks' = tbl
       ELSE /\ pc' = [pc EXCEPT ![j] = "embed"]
            /\ result' = result
            /\ content_chunks' = DeleteChunks(tbl, d)

\* POST /index/{content_id}
StartIndex(j, d, n) ==
    /\ Fresh(j)
    /\ kind' = [kind EXCEPT ![j] = "index"]
    /\ IndexHead(j, d, n, content_chunks)
    /\ UNCHANGED <<searchVars, embedVars, pureVars>>

\* POST /reindex/{content_id}: reindex_content deletes, then runs
\* index_content (awaiting a coroutine does not yield by itself).
StartReindex(j, d, n) ==
    /\ Fresh(j)
    /\ kind' = [kind EXCEPT ![j] = "reindex"]
    /\ IndexHead(j, d, n, DeleteChunks(content_chunks, d))
    /\ UNCHANGED <<searchVars, embedVars, pureVars>>

\* -------------------------------------------------------- process_content
ProcessHead(j, d, n) ==
    /\ doc' = [doc EXCEPT ![j] = d]
    /\ total' = [total EXCEPT ![j] = n]
    /\ alone' = AloneAtStart(j, d)
    /\ pc' = [pc EXCEPT ![j] = "embed"]
    /\ UNCHANGED <<doc_embedding, idx, chunks_stored, errors, attempts, failed, result>>

\* POST /content: insert the content row, then create_task(background_indexing)
\* which runs process_content; nothing is deleted (the id is new).
Upload(j, d, n) ==
    /\ Fresh(j)
    /\ NewId(d)
    /\ n >= 1
    /\ content' = content \cup {d}
    /\ kind' = [kind EXCEPT ![j] = "upload"]
    /\ content_chunks' = content_chunks
    /\ ProcessHead(j, d, n)
    /\ UNCHANGED <<searchVars, embedVars, pureVars>>

\* POST /content/{id}/reprocess: 404 unless the row exists; delete the chunks
\* of the document, then process_content.
StartReprocess(j, d, n) ==
    /\ Fresh(j)
    /\ d \in content
    /\ n >= 1
    /\ content' = content
    /\ kind' = [kind EXCEPT ![j] = "reprocess"]
    /\ content_chunks' = DeleteChunks(content_chunks, d)
    /\ ProcessHead(j, d, n)
    /\ UNCHANGED <<searchVars, embedVars, pureVars>>

\* ------------------------------------------------------- the chunk loop
\* One iteration, resumed when `await embed_document(chunk.text)` completes
\* with outcome e; s is the outcome of the insert that follows.
\* index_content: both calls sit in one try, an exception appends
\* "Chunk i: ..." to errors.  process_content: a failed embedding stores the
\* chunk without embedding, a failed insert is printed and dropped.
ChunkStepIndex(j, e, s) ==
    LET i == idx[j]
        okay == e = "ok" /\ s = "ok"
    IN  /\ content_chunks' = IF okay
               THEN content_chunks \cup {Row(doc[j], i, j, TRUE)}
               ELSE content_chunks
        /\ chunks_stored' = [chunks_stored EXCEPT ![j] = IF okay THEN @ + 1 ELSE @]
        /\ errors' = [errors EXCEPT ![j] = IF okay THEN @ ELSE Append(@, ChunkError(i))]

ChunkStepProcess(j, e, s) ==
    LET i == idx[j]
    IN  /\ content_chunks' = IF s = "ok"
               THEN content_chunks \cup {Row(doc[j], i, j, e = "ok")}
               ELSE content_chunks
        /\ chunks_stored' = [chunks_stored EXCEPT ![j] = IF s = "ok" THEN @ + 1 ELSE @]
        /\ errors' = errors

ChunkStep(j, e, s) ==
    /\ pc[j] = "embed"
    /\ IF kind[j] \in IndexKinds THEN ChunkStepIndex(j, e, s)
                                 ELSE ChunkStepProcess(j, e, s)
    /\ idx' = [idx EXCEPT ![j] = @ + 1]
    /\ attempts' = [attempts EXCEPT ![j][idx[j]] = @ + 1]
    /\ failed' = [failed EXCEPT ![j] = IF e = "ok" /\ s = "ok" THEN @ ELSE @ + 1]
    /\ pc' = [pc EXCEPT ![j] = IF idx[j] + 1 < total[j] THEN "embed" ELSE "docembed"]
    /\ UNCHANGED <<content, doc_embedding, kind, doc, total, result, alone>>
    /\ UNCHANGED <<searchVars, embedVars, pureVars>>

\* ----------------------------------------------- document-level embedding
IndexSummary(j, errs) ==
    [success |-> TRUE, content_id |-> doc[j], chunks_created |-> chunks_stored[j],
     total_chunks |-> total[j], errors |-> errs]

ProcessSummary(j) ==
    [success |-> TRUE, chunks_created |-> chunks_stored[j]]

\* Resumed when the document-level embed_document completes with outcome e;
\* the content row is updated and the summary returned.
DocStep(j, e) ==
    /\ pc[j] = "docembed"
    /\ doc_embedding' = IF e = "ok" /\ doc[j] \in content
                        THEN doc_embedding \cup {doc[j]} ELSE doc_embedding
    /\ errors' = [errors EXCEPT ![j] =
           IF e = "raise" /\ kind[j] \in IndexKinds THEN Append(@, DocError) ELSE @]
    /\ result' = [result EXCEPT ![j] =
           IF kind[j] \in IndexKinds THEN IndexSummary(j, errors'[j])
                                     ELSE ProcessSummary(j)]
    /\ pc' = [pc EXCEPT ![j] = "done"]
    /\ UNCHANGED <<content, content_chunks, kind, doc, total, idx, chunks_stored,
                   attempts, failed, alone>>
    /\ UNCHANGED <<searchVars, embedVars, pureVars>>

NextIndex ==
    \/ \E j \in Jobs, d \in Docs, n \in 0..MaxChunks : StartIndex(j, d, n)
    \/ \E j \in Jobs, d \in Docs, n \in 0..MaxChunks : StartReindex(j, d, n)
    \/ \E j \in Jobs, d \in Docs, n \in 1..MaxChunks : Upload(j, d, n)
    \/ \E j \in Jobs, d \in Docs, n \in 1..MaxChunks : StartReprocess(j, d, n)
    \/ \E j \in Jobs, e \in Outcomes, s \in Outcomes : ChunkStep(j, e, s)
    \/ \E j \in Jobs, e \in Outcomes : DocStep(j, e)

vars == <<idxVars, searchVars, embedVars, pureVars>>

SpecIndex == InitIndex /\ [][NextIndex]_vars

\* ------------------------------------------------- claims on SpecIndex
\* Indices of the chunks an index_content summary reports as failed.
FailedIdx(errs) == {errs[k].i : k \in {m \in DOMAIN errs : errs[m].what = "chunk"}}

\* Number of per-chunk error entries a summary carries (process_content
\* returns no errors field).
PerChunkErrors(r) ==
    IF "errors" \in DOMAIN r
    THEN Cardinality({m \in DOMAIN r.errors : r.errors[m].what = "chunk"})
    ELSE 0

\* C1: once no indexing job of a document is running, the chunks stored for
\* the document hold no duplicate chunk_index and come from one job only,
\* whatever the interleaving of the jobs was.
C1_SerializedPerDocument ==
    \A d \in Docs :
        ActiveOn(d) = {} =>
            \A r1, r2 \in RowsOf(content_chunks, d) :
                /\ r1.run = r2.run
                /\ (r1.chunk_index = r2.chunk_index => r1 = r2)

\* C2: when index_content / reindex_content has returned success and no other
\* job of the document was active since it started, the chunks stored for
\* the document are exactly the chunks this run stored (the generated chunks
\* whose embedding and insert succeeded); nothing of earlier runs is left.
C2_ReplacedWholesale ==
    \A j \in Jobs :
        (kind[j] \in IndexKinds /\ pc[j] = "done" /\ result[j].success /\ alone[j]) =>
            RowsOf(content_chunks, doc[j]) =
                {Row(doc[j], i, j, TRUE) :
                    i \in (0..(total[j] - 1)) \ FailedIdx(result[j].errors)}

\* A successful lone index run that stored a chunk after an earlier job had
\* stored chunks for the same document.
C2_Witness ==
    \E j, k \in Jobs :
        /\ k < j /\ doc[k] = doc[j] /\ pc[k] = "done" /\ chunks_stored[k] > 0
        /\ kind[j] \in IndexKinds /\ pc[j] = "done" /\ result[j].success /\ alone[j]
        /\ result[j].chunks_created > 0

\* C3: a finished job attempted every chunk exactly once and its summary
\* reports every chunk failure: the per-chunk error entries number the
\* failed attempts, and for index_content chunks_created plus the per-chunk
\* error entries equals total_chunks.
C3_FailuresReported ==
    \A j \in Jobs :
        (pc[j] = "done" /\ result[j].success) =>
            /\ \A i \in 0..(total[j] - 1) : attempts[j][i] = 1
            /\ PerChunkErrors(result[j]) = failed[j]
            /\ kind[j] \in IndexKinds =>
                   result[j].chunks_created + PerChunkErrors(result[j])
                       = result[j].total_chunks

\* The call of job j returns a failure result in this step.
ReturnsFailure(j) ==
    /\ pc[j] # "done" /\ pc'[j] = "done"
    /\ kind'[j] \in IndexKinds
    /\ ~result'[j].success

\* C29: a call of index_content or reindex_content that returns a failure
\* result (content not found, no content to index) leaves the chunks stored
\* for its content_id as they were before the call.
C29_FailureKeepsChunks ==
    [][\A j \in Jobs :
          ReturnsFailure(j) =>
              RowsOf(content_chunks', doc'[j]) = RowsOf(content_chunks, doc'[j])]_vars

\* =================================================================
\* Retrieval (retrieval_service.py)
\* =================================================================
MaxTopK == 2
HybridThreshold == 4
FallbackSimilarity == 6
FallbackLimit == 100
MaxTerms == 5

NoFilter == "any"
TermIds == {"t1"}
SimLevels == {3, 6, 8}
Counts == {0, 1, 7}
TextFields == {"title", "description", "topic"}

\* Tables in storage order (the query is fixed, its match data are in sim,
\* cnt and fields).
ContentRows ==
    << [id |-> "d1", category |-> "theory", content_type |-> "slides"],
       [id |-> "d2", category |-> "lab", content_type |-> "code"] >>

ChunkRows ==
    << [id |-> "c1", content_id |-> "d1", chunk_index |-> 0],
       [id |-> "c2", content_id |-> "d1", chunk_index |-> 1],
       [id |-> "c3", content_id |-> "d2", chunk_index |-> 0] >>

ContentIds == {ContentRows[n].id : n \in DOMAIN ContentRows}
ChunkIds == {ChunkRows[n].id : n \in DOMAIN ChunkRows}

Min(a, b) == IF a < b THEN a ELSE b

\* s[:n]
Take(s, n) == SubSeq(s, 1, Min(n, Len(s)))

\* content_map.get(content_id, {})
ContentMeta(d) ==
    LET hit == {n \in DOMAIN ContentRows : ContentRows[n].id = d}
    IN  IF hit = {} THEN [id |-> d, category |-> "", content_type |-> ""]
        ELSE ContentRows[CHOOSE n \in hit : TRUE]

\* `if f and meta.get(column) != f: continue`
Passes(f, value) == f = NoFilter \/ value = f

\* ---- the vector index: RPC search_similar_chunks (SQL, not in the sources)
RECURSIVE SortDesc(_)
\* list.sort(key=lambda x: x['similarity'], reverse=True): stable,
\* non-increasing in similarity (also the ORDER BY of the RPC)
SortDesc(s) ==
    IF s = <<>> THEN <<>>
    ELSE LET x == s[Len(s)]
             t == SortDesc(SubSeq(s, 1, Len(s) - 1))
             before == {p \in DOMAIN t : t[p].similarity < x.similarity}
             at == IF before = {} THEN Len(t) + 1
                   ELSE CHOOSE p \in before : \A q \in before : p <= q
         IN  SubSeq(t, 1, at - 1) \o <<x>> \o SubSeq(t, at, Len(t))

SemanticRow(c, similarity) ==
    LET m == ContentMeta(c.content_id)
    IN  [chunk_id |-> c.id, content_id |-> c.content_id,
         chunk_index |-> c.chunk_index, similarity |-> similarity,
         content_category |-> m.category, content_type |-> m.content_type]

RpcSimilarChunks(threshold, count, category, content_type) ==
    LET keep(c) == /\ sim[c.id] >= threshold
                   /\ Passes(category, ContentMeta(c.content_id).category)
                   /\ Passes(content_type, ContentMeta(c.content_id).content_type)
        hit == SelectSeq(ChunkRows, keep)
        rows == [n \in DOMAIN hit |-> SemanticRow(hit[n], sim[hit[n].id])]
    IN  Take(SortDesc(rows), count)

\* ---- _fallback_search: the first rows of content_chunks, filtered by the
\* metadata of their document, each with similarity 0.6
FallbackSearch(top_k, threshold, category, content_type) ==
    LET data == Take(ChunkRows, FallbackLimit)
        keep(c) == /\ Passes(category, ContentMeta(c.content_id).category)
                   /\ Passes(content_type, ContentMeta(c.content_id).content_type)
        hit == SelectSeq(data, keep)
    IN  Take([n \in DOMAIN hit |-> SemanticRow(hit[n], FallbackSimilarity)], top_k)

Raised == [status |-> "raised", rows |-> <<>>]
Returned(rows) == [status |-> "ok", rows |-> rows]

\* ---- search_chunks; emb is the outcome of embed_query (outside the try),
\* rpc the outcome of the RPC call
SearchChunks(top_k, threshold, category, content_type, emb, rpc) ==
    IF emb = "raise" THEN Raised
    ELSE IF rpc = "raise"
    THEN Returned(FallbackSearch(top_k, threshold, category, content_type))
    ELSE LET data == RpcSimilarChunks(threshold, top_k, category, content_type)
         IN  IF data # <<>> THEN Returned(data)
             ELSE Returned(FallbackSearch(top_k, threshold, category, content_type))

\* ---- _search_chunk_text
ChunkTextRow(c, term) ==
    LET m == ContentMeta(c.content_id)
    IN  [chunk_id |-> c.id, content_id |-> c.content_id,
         content_category |-> m.category, content_type |-> m.content_type,
         keyword_score |-> Min(3 + cnt[c.id][term], 9)]

RECURSIVE TermRows(_, _, _, _)
\* the inner loop over response.data for one term; acc is `results`
TermRows(data, term, category, acc) ==
    IF data = <<>> THEN acc
    ELSE LET c == Head(data)
             seen == {acc[n].chunk_id : n \in DOMAIN acc}
             skip == \/ c.id \in seen
                     \/ ~Passes(category, ContentMeta(c.content_id).category)
         IN  TermRows(Tail(data), term, category,
                      IF skip THEN acc ELSE Append(acc, ChunkTextRow(c, term)))

RECURSIVE AllTermRows(_, _, _, _, _)
\* the loop over the terms; bad holds the terms whose query raises, which
\* `except Exception: continue` skips
AllTermRows(terms, top_k, category, bad, acc) ==
    IF terms = <<>> THEN acc
    ELSE LET term == Head(terms)
             match(c) == cnt[c.id][term] > 0
             data == Take(SelectSeq(ChunkRows, match), top_k)
         IN  AllTermRows(Tail(terms), top_k, category, bad,
                         IF term \in bad THEN acc
                         ELSE TermRows(data, term, category, acc))

SearchChunkText(terms, top_k, category, bad) ==
    IF terms = <<>> THEN <<>>
    ELSE Take(AllTermRows(Take(terms, MaxTerms), top_k, category, bad, <<>>), top_k)

\* ---- _keyword_search
ContentScore(d) ==
    LET score == (IF "title" \in fields[d] THEN 4 ELSE 0)
               + (IF "description" \in fields[d] THEN 3 ELSE 0)
               + (IF "topic" \in fields[d] THEN 3 ELSE 0)
    IN  IF score > 0 THEN Min(score, 10) ELSE 2

ContentItem(r) ==
    [id |-> r.id, category |-> r.category, content_type |-> r.content_type,
     keyword_score |-> ContentScore(r.id)]

KeywordSearch(terms, top_k, category, content_type, bad) ==
    LET keep(r) == /\ fields[r.id] # {}
                   /\ Passes(category, r.category)
                   /\ Passes(content_type, r.content_type)
        data == Take(SelectSeq(ContentRows, keep), top_k)
    IN  [n \in DOMAIN data |-> ContentItem(data[n])]
            \o SearchChunkText(terms, top_k, category, bad)

\* ---- hybrid_search
Get(r, f, default) == IF f \in DOMAIN r THEN r[f] ELSE default

\* key = r.get('id', r.get('chunk_id', ''))
KeywordKey(r) == Get(r, "id", Get(r, "chunk_id", ""))

FromSemantic(r) ==
    [chunk_id |-> r.chunk_id, content_id |-> r.content_id,
     chunk_index |-> r.chunk_index,
     content_category |-> r.content_category, content_type |-> r.content_type,
     semantic_score |-> r.similarity, keyword_score |-> 0, similarity |-> r.similarity]

FromKeyword(r) ==
    [chunk_id |-> KeywordKey(r), content_id |-> Get(r, "content_id", ""),
     content_category |-> Get(r, "category", ""),
     content_type |-> Get(r, "content_type", ""),
     semantic_score |-> 0, keyword_score |-> Get(r, "keyword_score", 5),
     similarity |-> 0]

RECURSIVE MergeKeyword(_, _)
\* the second loop of the merge; combined keeps the insertion order of the dict
MergeKeyword(combined, kws) ==
    IF kws = <<>> THEN combined
    ELSE LET r == Head(kws)
             at == {n \in DOMAIN combined : combined[n].chunk_id = KeywordKey(r)}
         IN  MergeKeyword(
                 IF at = {} THEN Append(combined, FromKeyword(r))
                 ELSE [n \in DOMAIN combined |->
                          IF n \in at
                          THEN [combined[n] EXCEPT
                                   !.keyword_score = Get(r, "keyword_score", 5)]
                          ELSE combined[n]],
                 Tail(kws))

RECURSIVE MergeSemantic(_, _)
\* the first loop: a later row of the same chunk_id replaces the earlier one
MergeSemantic(combined, sem) ==
    IF sem = <<>> THEN combined
    ELSE LET r == Head(sem)
             at == {n \in DOMAIN combined : combined[n].chunk_id = r.chunk_id}
         IN  MergeSemantic(
                 IF at = {} THEN Append(combined, FromSemantic(r))
                 ELSE [n \in DOMAIN combined |->
                          IF n \in at THEN FromSemantic(r) ELSE combined[n]],
                 Tail(sem))

Scored(item, keyword_weight, semantic_weight) ==
    [item EXCEPT !.similarity = item.semantic_score * semantic_weight
                              + item.keyword_score * keyword_weight]

HybridMergeTruncateFirst(sem, kws, top_k, keyword_weight, semantic_weight) ==
    LET combined == MergeKeyword(MergeSemantic(<<>>, sem), kws)
        results == [n \in DOMAIN combined |->
                       Scored(combined[n], keyword_weight, semantic_weight)]
    IN  SortDesc(Take(results, top_k))

HybridMerge(sem, kws, top_k, keyword_weight, semantic_weight) ==
    LET combined == MergeKeyword(MergeSemantic(<<>>, sem), kws)
        results == [n \in DOMAIN combined |->
                       Scored(combined[n], keyword_weight, semantic_weight)]
    IN  Take(SortDesc(results), top_k)

HybridSearch(terms, top_k, keyword_weight, semantic_weight, category, content_type, emb, rpc, bad) ==
    LET semantic == SearchChunks(top_k * 2, HybridThreshold, category,
                                 content_type, emb, rpc)
        keyword == KeywordSearch(terms, top_k * 2, category, content_type, bad)
    IN  IF semantic.status = "raised" THEN Raised
        ELSE Returned(HybridMerge(semantic.rows, keyword, top_k,
                                  keyword_weight, semantic_weight))

\* ---- the search requests: one call against the corpus chosen initially
Weights == {[keyword |-> 3, semantic |-> 7],
            [keyword |-> 10, semantic |-> 0],
            [keyword |-> 0, semantic |-> 10]}
Thresholds == {5, 7}
Categories == {NoFilter, "theory"}
ContentTypes == {NoFilter, "slides"}
Queries == {<<>>, <<"t1">>}

InitSearch ==
    /\ IndexIdle
    /\ EmbedIdle
    /\ PureIdle
    /\ sim \in [ChunkIds -> SimLevels]
    /\ cnt \in [ChunkIds -> [TermIds -> Counts]]
    /\ fields \in [ContentIds -> {{}, {"title"}}]
    /\ fields["d2"] = {}
    /\ sreq = [op |-> "none"]
    /\ sres = [status |-> "none", rows |-> <<>>]

\* POST /search/semantic -> search_chunks
DoSearchChunks(k, t, cat, ct, emb, rpc) ==
    /\ sreq.op = "none"
    /\ sreq' = [op |-> "search_chunks", top_k |-> k, threshold |-> t,
                category |-> cat, content_type |-> ct, emb |-> emb, rpc |-> rpc]
    /\ sres' = SearchChunks(k, t, cat, ct, emb, rpc)
    /\ UNCHANGED <<sim, cnt, fields, idxVars, embedVars, pureVars>>

\* _keyword_search called on its own
DoKeywordSearch(q, k, cat, ct) ==
    /\ sreq.op = "none"
    /\ sreq' = [op |-> "keyword_search", terms |-> q, top_k |-> k,
                category |-> cat, content_type |-> ct, bad |-> {}]
    /\ sres' = Returned(KeywordSearch(q, k, cat, ct, {}))
    /\ UNCHANGED <<sim, cnt, fields, idxVars, embedVars, pureVars>>

\* POST /search/hybrid -> hybrid_search
\* bad: the terms whose content_chunks query raises
DoHybridSearch(q, k, w, cat, ct, emb, rpc, bad) ==
    /\ sreq.op = "none"
    /\ sreq' = [op |-> "hybrid_search", terms |-> q, top_k |-> k,
                keyword_weight |-> w.keyword, semantic_weight |-> w.semantic,
                category |-> cat, content_type |-> ct, emb |-> emb, rpc |-> rpc,
                bad |-> bad]
    /\ sres' = HybridSearch(q, k, w.keyword, w.semantic, cat, ct, emb, rpc, bad)
    /\ UNCHANGED <<sim, cnt, fields, idxVars, embedVars, pureVars>>

NextSearch ==
    \/ \E k \in 1..MaxTopK, t \in Thresholds, cat \in Categories,
          ct \in ContentTypes, emb \in Outcomes, rpc \in Outcomes :
          DoSearchChunks(k, t, cat, ct, emb, rpc)
    \/ \E q \in Queries, k \in 1..MaxTopK, cat \in Categories, ct \in ContentTypes :
          DoKeywordSearch(q, k, cat, ct)
    \/ \E q \in Queries, k \in 1..MaxTopK, w \in Weights, cat \in Categories,
          ct \in ContentTypes, emb \in Outcomes, rpc \in Outcomes :
          \E bad \in SUBSET {q[n] : n \in DOMAIN q} :
              DoHybridSearch(q, k, w, cat, ct, emb, rpc, bad)

SpecSearch == InitSearch /\ [][NextSearch]_vars

\* ------------------------------------------------- claims on SpecSearch
Hybrid == sreq.op = "hybrid_search"
Semantic == sreq.op = "search_chunks"

\* The two legs of the hybrid call that was made, as hybrid_search runs them.
SemanticLeg ==
    SearchChunks(sreq.top_k * 2, HybridThreshold, sreq.category,
                 sreq.content_type, sreq.emb, sreq.rpc).rows
KeywordLeg ==
    KeywordSearch(sreq.terms, sreq.top_k * 2, sreq.category, sreq.content_type, sreq.bad)

\* Per key of the two legs: the scores the legs gave it and their weighted sum.
LegScores ==
    LET sem == SemanticLeg
        kws == KeywordLeg
        semKeys == {sem[n].chunk_id : n \in DOMAIN sem}
        kwKeys == {KeywordKey(kws[n]) : n \in DOMAIN kws}
    IN  [key \in semKeys \cup kwKeys |->
            LET a == IF key \in semKeys
                     THEN sem[CHOOSE n \in DOMAIN sem : sem[n].chunk_id = key].similarity
                     ELSE 0
                b == IF key \in kwKeys
                     THEN kws[CHOOSE n \in DOMAIN kws :
                                  KeywordKey(kws[n]) = key].keyword_score
                     ELSE 0
            IN  [semantic |-> a, keyword |-> b,
                 combined |-> sreq.semantic_weight * a + sreq.keyword_weight * b]]

ReturnedKeys == {sres.rows[n].chunk_id : n \in DOMAIN sres.rows}
KeySeq(rows) == [n \in DOMAIN rows |-> Get(rows[n], "id", Get(rows[n], "chunk_id", ""))]

\* The document a returned candidate belongs to (a content-level keyword
\* candidate is the document itself).
DocOf(r) == IF Get(r, "content_id", "") # "" THEN r.content_id
            ELSE Get(r, "id", Get(r, "chunk_id", ""))

\* C4: with the vector index throwing and keyword matches present,
\* hybrid_search returns a non-empty result in which every candidate has
\* semantic_score 0.
C4_KeywordOnlyDegradation ==
    (Hybrid /\ sreq.emb = "ok" /\ sreq.rpc = "raise" /\ KeywordLeg # <<>>) =>
        /\ sres.status = "ok"
        /\ sres.rows # <<>>
        /\ \A n \in DOMAIN sres.rows : sres.rows[n].semantic_score = 0

\* C5: hybrid_search returns the union of the two legs by key, each key
\* once, a missing leg scored 0, similarity = semantic_weight * semantic +
\* keyword_weight * keyword, in non-increasing order of similarity, cut to
\* top_k, and no omitted candidate scores higher than a returned one.
C5_UnionScoreSortTruncate ==
    (Hybrid /\ sres.status = "ok") =>
        LET rows == sres.rows
            leg == LegScores
            union == DOMAIN leg
        IN  /\ ReturnedKeys \subseteq union
            /\ \A m, n \in DOMAIN rows : rows[m].chunk_id = rows[n].chunk_id => m = n
            /\ \A n \in DOMAIN rows :
                   /\ rows[n].semantic_score = leg[rows[n].chunk_id].semantic
                   /\ rows[n].keyword_score = leg[rows[n].chunk_id].keyword
                   /\ rows[n].similarity = leg[rows[n].chunk_id].combined
            /\ \A m, n \in DOMAIN rows : m < n => rows[m].similarity >= rows[n].similarity
            /\ Len(rows) = Min(sreq.top_k, Cardinality(union))
            /\ \A key \in union \ ReturnedKeys : \A n \in DOMAIN rows :
                   leg[key].combined <= rows[n].similarity

\* A hybrid result cut to top_k that leaves out a candidate and holds one
\* scored by both legs, the legs each having a candidate of their own, with
\* both weights positive.
C5_Witness ==
    /\ Hybrid /\ sres.status = "ok"
    /\ sreq.keyword_weight > 0 /\ sreq.semantic_weight > 0
    /\ Cardinality(DOMAIN LegScores) > sreq.top_k
    /\ \E key \in DOMAIN LegScores : LegScores[key].keyword = 0
    /\ \E key \in DOMAIN LegScores : LegScores[key].semantic = 0
    /\ \E n \in DOMAIN sres.rows :
           sres.rows[n].semantic_score > 0 /\ sres.rows[n].keyword_score > 0

\* C6: hybrid_search with keyword_weight=1, semantic_weight=0 returns the
\* candidates of keyword search in the same order, and with
\* semantic_weight=1, keyword_weight=0 those of semantic search.
C6_SingleLegEquivalence ==
    (Hybrid /\ sres.status = "ok") =>
        /\ (sreq.keyword_weight = 10 /\ sreq.semantic_weight = 0) =>
               KeySeq(sres.rows) =
                   KeySeq(KeywordSearch(sreq.terms, sreq.top_k, sreq.category,
                                        sreq.content_type, sreq.bad))
        /\ (sreq.semantic_weight = 10 /\ sreq.keyword_weight = 0) =>
               KeySeq(sres.rows) =
                   KeySeq(SearchChunks(sreq.top_k, HybridThreshold, sreq.category,
                                       sreq.content_type, sreq.emb, sreq.rpc).rows)

\* C7: search_chunks with threshold t returns only candidates of similarity
\* at least t, and nothing when no chunk of the index reaches t.
C7_ThresholdRespected ==
    (Semantic /\ sres.status = "ok") =>
        /\ \A n \in DOMAIN sres.rows : sres.rows[n].similarity >= sreq.threshold
        /\ (\A c \in ChunkIds : sim[c] < sreq.threshold) => sres.rows = <<>>

\* C8: every candidate returned by hybrid_search or search_chunks belongs to
\* a document whose category and content_type equal the supplied filters.
C8_FiltersOnEveryCandidate ==
    ((Hybrid \/ Semantic) /\ sres.status = "ok") =>
        \A n \in DOMAIN sres.rows :
            /\ Passes(sreq.category, ContentMeta(DocOf(sres.rows[n])).category)
            /\ Passes(sreq.content_type, ContentMeta(DocOf(sres.rows[n])).content_type)

\* C22: when a chunk-text query of the keyword leg raised, a successful
\* hybrid_search response holds nothing of that leg: no candidate carries a
\* keyword score taken from the leg's partial results.
C22_NoPartialLegMerged ==
    (Hybrid /\ sres.status = "ok" /\ sreq.bad # {}) =>
        \A n \in DOMAIN sres.rows : sres.rows[n].keyword_score = 0

\* C23: among the candidates hybrid_search returns with equal combined
\* score the one with the higher semantic_score comes first, and among those
\* with equal semantic_score too the one with the lower chunk index.
C23_TieBreak ==
    (Hybrid /\ sres.status = "ok") =>
        \A m, n \in DOMAIN sres.rows :
            (m < n /\ sres.rows[m].similarity = sres.rows[n].similarity) =>
                /\ sres.rows[m].semantic_score >= sres.rows[n].semantic_score
                /\ (/\ sres.rows[m].semantic_score = sres.rows[n].semantic_score
                    /\ "chunk_index" \in DOMAIN sres.rows[m]
                    /\ "chunk_index" \in DOMAIN sres.rows[n]) =>
                       sres.rows[m].chunk_index <= sres.rows[n].chunk_index

\* =================================================================
\* Embedding provider (embedding_service.py)
\* =================================================================
MaxTexts == 2
MaxBatchSize == 2
Dimension == 768
HashRounds == 48
FloatsPerHash == 16

\* A text is its first 8000 characters after strip() (head), what follows
\* them (tail) and whether it came with surrounding whitespace (pad).
RawTexts ==
    { [head |-> "a", tail |-> "", pad |-> FALSE],
      [head |-> "a", tail |-> "x", pad |-> TRUE] }

TaskTypes == {"search_document", "search_query"}

\* _prepare_text: strip, cut to 8000 characters, prefix queries
PrepareText(text, task_type) ==
    [head |-> text.head, prefix |-> task_type = "search_query"]

\* _generate_simple_embedding: 48 md5 digests of the text bytes, 16 floats
\* each, cut to 768; a function of the prepared text alone
GenerateSimpleEmbedding(text) ==
    [kind |-> "fallback", text |-> text,
     dim |-> Min(HashRounds * FloatsPerHash, Dimension)]

\* text.encode('utf-8'), as a number standing for the byte string
TextCode(text) == (IF text.head = "a" THEN 97 ELSE 98) + (IF text.prefix THEN 82 ELSE 0)

\* Byte k (0..15) of hashlib.md5(text_bytes + str(i).encode()).  md5 itself
\* is represented by a mixing function of the same domain and range: a byte
\* 0..255 determined by the text bytes, i and k, every byte value occurring.
Md5Byte(text, i, k) == (TextCode(text) + FloatsPerHash * i + k) % 256

\* int(h[j:j+2], 16) / 127.5 - 1, in units of 1/255: (2 * byte - 255) / 255
HexPairValueOffCentre(byte) == 2 * byte - 256
HexPairValue(byte) == 2 * byte - 255

\* component n (1-based) of a fallback vector, in units of 1/255
FallbackComponent(v, n) ==
    HexPairValue(Md5Byte(v.text, (n - 1) \div FloatsPerHash, (n - 1) % FloatsPerHash))

\* a vector of the model for the text
RealVector(text) == [kind |-> "real", text |-> text, dim |-> Dimension]

\* ---- what one POST to the inference API can do
ErrorDetails == {<<>>, <<"All", "connection", "attempts", "failed">>}
ResponseTexts == {<<>>, <<"Unauthorized">>}
Bodies == {"nested", "flat", "empty", "object", "invalid"}
ErrorStatuses == {"401", "403", "500", "503"}

PostOutcomes ==
    {[kind |-> "request_error", status |-> "", body |-> "", text |-> d] :
        d \in ErrorDetails}
    \cup {[kind |-> "response", status |-> "200", body |-> b, text |-> <<>>] :
        b \in Bodies}
    \cup {[kind |-> "response", status |-> c, body |-> "", text |-> t] :
        c \in ErrorStatuses, t \in ResponseTexts}

\* ---- exception messages, as sequences of words
Exc(msg) == [status |-> "raised", msg |-> msg]
Ok(value) == [status |-> "ok", value |-> value]

\* str.lower() on the words that occur
Lower(w) ==
    CASE w = "Request" -> "request"
      [] w = "Unauthorized" -> "unauthorized"
      [] w = "Embedding" -> "embedding"
      [] w = "API" -> "api"
      [] w = "All" -> "all"
      [] w = "Expecting" -> "expecting"
      [] w = "Unexpected" -> "unexpected"
      [] OTHER -> w
LowerStr(msg) == [n \in DOMAIN msg |-> Lower(msg[n])]

\* `needle in msg` (no word of the messages contains a needle properly)
Contains(msg, needle) == \E n \in DOMAIN msg : msg[n] = needle

\* ---- _call_hf_api, from the response it ends with: the JSON body, or the
\* exception raised (response.json() fails on an invalid body)
CallResult(o) ==
    IF o.kind = "request_error" THEN Exc(<<"Request", "error">> \o o.text)
    ELSE IF o.status = "200"
    THEN IF o.body = "invalid" THEN Exc(<<"Expecting", "value">>)
         ELSE [status |-> "ok", body |-> o.body]
    ELSE IF o.status \in {"401", "403"}
    THEN Exc(<<"401", "Unauthorized">> \o o.text)
    ELSE Exc(<<"Embedding", "API", "error", o.status>> \o o.text)

\* ---- embed_text: the except clause
ShouldFallbackAuthOnly(msg) ==
    \E x \in {"401", "403", "unauthorized"} : Contains(LowerStr(msg), x)

ShouldFallback(msg) ==
    \E x \in {"401", "403", "unauthorized", "failed", "error"} :
        Contains(LowerStr(msg), x)

EmbedTextExcept(prepared, msg) ==
    IF ShouldFallback(msg) THEN Ok(GenerateSimpleEmbedding(prepared))
    ELSE Exc(msg)

\* r is what _call_hf_api gave for [prepared]
EmbedTextResult(prepared, r) ==
    IF r.status = "raised" THEN EmbedTextExcept(prepared, r.msg)
    ELSE IF r.body \in {"nested", "flat"} THEN Ok(RealVector(prepared))
    ELSE EmbedTextExcept(prepared,
             <<"Unexpected", "embedding", "response", "format">>)

\* ---- embed_batch: one pass of the loop body
BatchOf(texts, i, batch_size) ==
    SubSeq(texts, i + 1, Min(i + batch_size, Len(texts)))

ShouldFallbackBatch(msg) == Contains(msg, "401") \/ Contains(msg, "Unauthorized")

\* all_embeddings.extend(result): one vector per text for a nested body, the
\* floats themselves for a flat one (kept as one entry), nothing for []
Extended(acc, body, prepared_batch) ==
    IF body = "nested"
    THEN acc \o [n \in DOMAIN prepared_batch |-> RealVector(prepared_batch[n])]
    ELSE IF body = "flat" THEN Append(acc, [kind |-> "floats", dim |-> Dimension])
    ELSE acc

\* the value of all_embeddings after the pass, or the exception leaving it
BatchPass(acc, prepared_batch, r) ==
    IF r.status = "ok" /\ r.body # "object"
    THEN Ok(Extended(acc, r.body, prepared_batch))
    ELSE LET msg == IF r.status = "ok"
                    THEN <<"Unexpected", "batch", "response", "format">>
                    ELSE r.msg
         IN  IF ShouldFallbackBatch(msg)
             THEN Ok(acc \o [n \in DOMAIN prepared_batch |->
                                GenerateSimpleEmbedding(prepared_batch[n])])
             ELSE Exc(msg)

\* ---- the calls
InitEmbed == IndexIdle /\ SearchIdle /\ EmbedIdle /\ PureIdle

EmbedFrame == UNCHANGED <<idxVars, searchVars, pureVars>>

\* What the service's caller keeps of the call that has just returned: the
\* first fallback vector a single-text call returned.
Recorded ==
    IF epc = "done" /\ ~eprev.set /\ ecall.api # "embed_batch"
       /\ eout.status = "ok" /\ eout.value.kind = "fallback"
    THEN [set |-> TRUE, text |-> ecall.texts[1], task_type |-> ecall.task_type,
          value |-> eout.value]
    ELSE eprev

\* The call returns to its caller (or its exception propagates): the
\* coroutine is gone and the service can be called again.
Return ==
    /\ epc = "done"
    /\ epc' = "idle"
    /\ ecall' = [api |-> "none"]
    /\ eposts' = <<>> /\ ebatch' = 0 /\ eacc' = <<>>
    /\ eout' = [status |-> "none"]
    /\ eprev' = Recorded
    /\ EmbedFrame

\* embed_text(text, task_type), embed_query(text), embed_document(text)
CallEmbedText(api, text, task_type) ==
    /\ epc = "idle"
    /\ api = "embed_query" => task_type = "search_query"
    /\ api = "embed_document" => task_type = "search_document"
    /\ ecall' = [api |-> api, task_type |-> task_type, texts |-> <<text>>,
                 batch_size |-> 1]
    /\ epc' = "post1"
    /\ UNCHANGED <<eposts, ebatch, eacc, eout, eprev>>
    /\ EmbedFrame

\* embed_batch(texts, task_type, batch_size).  Batch calls are explored
\* until a fallback vector is on record: a batch call leaves the record as
\* it is, so the calls that follow it are the calls that follow the record.
CallEmbedBatch(texts, task_type, batch_size) ==
    /\ epc = "idle" /\ ~eprev.set
    /\ ecall' = [api |-> "embed_batch", task_type |-> task_type, texts |-> texts,
                 batch_size |-> batch_size]
    /\ epc' = IF texts = <<>> THEN "done" ELSE "post1"
    /\ eout' = IF texts = <<>> THEN Ok(<<>>) ELSE eout
    /\ UNCHANGED <<eposts, ebatch, eacc, eprev>>
    /\ EmbedFrame

\* _call_hf_api has ended with response o: the caller goes on
Complete(o) ==
    LET r == CallResult(o)
        prepared == [n \in DOMAIN ecall.texts |->
                        PrepareText(ecall.texts[n], ecall.task_type)]
    IN  IF ecall.api # "embed_batch"
        THEN /\ eout' = EmbedTextResult(prepared[1], r)
             /\ epc' = "done"
             /\ UNCHANGED <<ebatch, eacc>>
        ELSE LET pass == BatchPass(eacc,
                             BatchOf(prepared, ebatch, ecall.batch_size), r)
                 next == ebatch + ecall.batch_size
             IN  IF pass.status = "raised"
                 THEN /\ eout' = pass
                      /\ epc' = "done"
                      /\ UNCHANGED <<ebatch, eacc>>
                 ELSE /\ eacc' = pass.value
                      /\ ebatch' = next
                      /\ epc' = IF next < Len(ecall.texts) THEN "post1" ELSE "done"
                      /\ eout' = IF next < Len(ecall.texts) THEN eout
                                 ELSE Ok(pass.value)

\* the first POST of a _call_hf_api is answered; a 503 is retried once
\* `if response.status_code == 503`: the model is loading, retry once
RetryOnAnyError(o) == o.kind = "response" /\ o.status # "200"
RetryOn(o) == o.kind = "response" /\ o.status = "503"

Respond1(o) ==
    /\ epc = "post1"
    /\ eposts' = Append(eposts, <<o>>)
    /\ ecall' = ecall /\ eprev' = eprev
    /\ IF RetryOn(o)
       THEN /\ epc' = "post2"
            /\ UNCHANGED <<ebatch, eacc, eout>>
       ELSE Complete(o)
    /\ EmbedFrame

\* the second POST is answered
Respond2(o) ==
    /\ epc = "post2"
    /\ eposts' = [eposts EXCEPT ![Len(eposts)] = Append(@, o)]
    /\ ecall' = ecall /\ eprev' = eprev
    /\ Complete(o)
    /\ EmbedFrame

RECURSIVE SeqsUpTo(_, _)
SeqsUpTo(S, n) ==
    IF n = 0 THEN {<<>>}
    ELSE LET shorter == SeqsUpTo(S, n - 1)
         IN  shorter \cup {Append(q, x) : q \in shorter, x \in S}

NextEmbed ==
    \/ \E api \in {"embed_text", "embed_query", "embed_document"},
          text \in RawTexts, task_type \in TaskTypes :
          CallEmbedText(api, text, task_type)
    \/ \E texts \in SeqsUpTo(RawTexts, MaxTexts), task_type \in TaskTypes,
          batch_size \in 1..MaxBatchSize :
          CallEmbedBatch(texts, task_type, batch_size)
    \/ \E o \in PostOutcomes : Respond1(o)
    \/ \E o \in PostOutcomes : Respond2(o)
    \/ Return

SpecEmbed == InitEmbed /\ [][NextEmbed]_vars

\* ------------------------------------------------- claims on SpecEmbed
\* The response a _call_hf_api call ended with.
LastPost(posts) == posts[Len(posts)]
BackendFailed(posts) ==
    LastPost(posts).kind = "request_error" \/ LastPost(posts).status # "200"

\* C9: when the backend call of embed_text / embed_query / embed_document
\* ends with a connection error or timeout, 401/403, a 503 after the retry
\* or another non-200 status, the call does not raise but returns the
\* fallback vector of the prepared text, of dimension 768.
C9_FallbackOnBackendFailure ==
    (ecall.api \in {"embed_text", "embed_query", "embed_document"}
        /\ epc = "done" /\ BackendFailed(eposts[1])) =>
        /\ eout.status = "ok"
        /\ eout.value.kind = "fallback"
        /\ eout.value.dim = Dimension
        /\ eout.value.text = PrepareText(ecall.texts[1], ecall.task_type)

\* embed_query has returned the fallback vector after a 503, a retry and a
\* connection error whose message is empty.
C9_Witness ==
    /\ ecall.api = "embed_query" /\ epc = "done"
    /\ Len(eposts[1]) = 2
    /\ eposts[1][1].status = "503"
    /\ eposts[1][2].kind = "request_error" /\ eposts[1][2].text = <<>>
    /\ eout.status = "ok" /\ eout.value.kind = "fallback"

\* The batches embed_batch went through: batch b covers texts
\* (b-1)*batch_size+1 .. b*batch_size.
BatchIndex(n) == ((n - 1) \div ecall.batch_size) + 1

\* C10: when the backend call of a batch of embed_batch fails (the other
\* batches answering with one vector per text), embed_batch returns one
\* vector per input text in input order, the texts of a failed batch having
\* their fallback vectors.
C10_BatchFailureFallsBack ==
    (ecall.api = "embed_batch" /\ epc = "done"
        /\ (\E b \in DOMAIN eposts : BackendFailed(eposts[b]))
        /\ (\A b \in DOMAIN eposts :
               BackendFailed(eposts[b]) \/ LastPost(eposts[b]).body = "nested")) =>
        /\ eout.status = "ok"
        /\ Len(eout.value) = Len(ecall.texts)
        /\ \A n \in DOMAIN eout.value :
               eout.value[n] =
                   IF BackendFailed(eposts[BatchIndex(n)])
                   THEN GenerateSimpleEmbedding(
                            PrepareText(ecall.texts[n], ecall.task_type))
                   ELSE RealVector(PrepareText(ecall.texts[n], ecall.task_type))

\* A fallback vector has the fixed dimension and components in [-1, 1].
FallbackWellFormed(v) ==
    /\ v.dim = Dimension
    /\ \A n \in 1..v.dim : FallbackComponent(v, n) \in -255..255

EndedCalls == IF epc = "done" THEN DOMAIN eposts ELSE 1..(Len(eposts) - 1)
Is503(o) == o.kind = "response" /\ o.status = "503"

\* C26: one backend call sends at most two requests, the second only if the
\* first was answered 503, and an ended call whose first answer was 503 has
\* sent exactly two; a second 503 ends the call with a failure and no third
\* request, which leads embed_text to return the fallback vector.
C26_OneRetryOn503 ==
    /\ \A b \in DOMAIN eposts :
           /\ Len(eposts[b]) \in 1..2
           /\ Len(eposts[b]) = 2 => Is503(eposts[b][1])
           /\ (b \in EndedCalls /\ Is503(eposts[b][1])) => Len(eposts[b]) = 2
    /\ (epc = "post2") => Len(LastPost(eposts)) = 1
    /\ (ecall.api = "embed_text" /\ epc = "done" /\ Len(eposts[1]) = 2
            /\ Is503(eposts[1][2])) =>
           /\ Len(eposts) = 1
           /\ eout = Ok(GenerateSimpleEmbedding(
                         PrepareText(ecall.texts[1], ecall.task_type)))

\* embed_text was answered 503 twice and has returned the fallback vector
\* after exactly two requests.
C26_Witness ==
    /\ ecall.api = "embed_text" /\ epc = "done"
    /\ eposts = <<eposts[1]>> /\ Len(eposts[1]) = 2
    /\ Is503(eposts[1][1]) /\ Is503(eposts[1][2])
    /\ eout.status = "ok" /\ eout.value.kind = "fallback"

\* =================================================================
\* Grounding verifier (chat_service.py, _verify_grounding)
\* =================================================================
\* Strings are sequences of one-character strings.
MaxFragments == 2
MaxListed == 2

UpperCase == <<"A", "B", "C", "D", "E", "F", "G", "H", "I", "J", "K", "L", "M", "N", "O", "P", "Q", "R", "S", "T", "U", "V", "W", "X", "Y", "Z">>
LowerCase == <<"a", "b", "c", "d", "e", "f", "g", "h", "i", "j", "k", "l", "m", "n", "o", "p", "q", "r", "s", "t", "u", "v", "w", "x", "y", "z">>
LowerOf == [c \in {UpperCase[n] : n \in DOMAIN UpperCase} |->
               LowerCase[CHOOSE n \in DOMAIN UpperCase : UpperCase[n] = c]]

\* str.lower(), character by character
LowerChar(c) == IF c \in DOMAIN LowerOf THEN LowerOf[c] ELSE c
StrLower(str) == [n \in DOMAIN str |-> LowerChar(str[n])]

\* needle in hay
Find(needle, hay) ==
    \E n \in 1..(Len(hay) - Len(needle) + 1) :
        SubSeq(hay, n, n + Len(needle) - 1) = needle

IsSpace(c) == c \in {" ", "\n", "\t"}

\* str.split(): the maximal runs of non-whitespace characters, in order
RECURSIVE SplitFrom(_, _, _, _)
SplitFrom(str, n, word, acc) ==
    IF n > Len(str) THEN (IF word = <<>> THEN acc ELSE Append(acc, word))
    ELSE IF IsSpace(str[n])
         THEN SplitFrom(str, n + 1, <<>>, IF word = <<>> THEN acc ELSE Append(acc, word))
         ELSE SplitFrom(str, n + 1, Append(word, str[n]), acc)
Split(str) == SplitFrom(str, 1, <<>>, <<>>)

\* re.search("\[source:?\s*" + re.escape(title_lower) + "\]", response_lower)
SourceTag == <<"[", "s", "o", "u", "r", "c", "e">>
CitedPatternFound(title_lower, response_lower) ==
    \E n \in 1..(Len(response_lower) - Len(SourceTag) + 1) :
        /\ SubSeq(response_lower, n, n + Len(SourceTag) - 1) = SourceTag
        /\ \E colon \in 0..1, spaces \in 0..Len(response_lower) :
               LET at == n + Len(SourceTag) + colon + spaces
               IN  /\ at + Len(title_lower) <= Len(response_lower)
                   /\ colon = 1 => response_lower[n + Len(SourceTag)] = ":"
                   /\ \A m \in (n + Len(SourceTag) + colon)..(at - 1) :
                          IsSpace(response_lower[m])
                   /\ SubSeq(response_lower, at, at + Len(title_lower) - 1) = title_lower
                   /\ response_lower[at + Len(title_lower)] = "]"

\* term_overlap > 0.5, with term_overlap = terms_found / len(title_words),
\* or 0 for a title without a word of more than 3 characters
OverlapAtLeastHalf(terms_found, n_words) == n_words > 0 /\ 2 * terms_found >= n_words
OverlapAboveHalf(terms_found, n_words) == n_words > 0 /\ 2 * terms_found > n_words

\* the loop body: the source with its marks
Marked(source, response_lower) ==
    LET title_lower == StrLower(source.title)
        is_cited == CitedPatternFound(title_lower, response_lower)
        is_mentioned == Find(title_lower, response_lower)
        Long(w) == Len(w) > 3
        title_words == SelectSeq(Split(title_lower), Long)
        terms_found == Cardinality({n \in DOMAIN title_words :
                                       Find(title_words[n], response_lower)})
    IN  IF is_cited \/ is_mentioned \/ OverlapAboveHalf(terms_found, Len(title_words))
        THEN [title |-> source.title, actually_used |-> TRUE, citation_found |-> is_cited]
        ELSE [title |-> source.title, actually_used |-> FALSE]

\* round(used_count / total_sources, 2) in hundredths: the nearest hundredth,
\* a tie going to the even one (ties arise for eighths only, which are exact
\* binary fractions, as long as total_sources < 40)
Round2Down(used_count, total_sources) == (100 * used_count) \div total_sources
Round2(used_count, total_sources) ==
    LET whole == (100 * used_count) \div total_sources
        rest == (100 * used_count) % total_sources
    IN  IF 2 * rest < total_sources THEN whole
        ELSE IF 2 * rest > total_sources THEN whole + 1
        ELSE IF whole % 2 = 0 THEN whole ELSE whole + 1

\* grounding_score > 0.3 for grounding_score = used_count / total_sources (or 0)
ScoreAtLeastThreshold(used_count, total_sources) ==
    total_sources > 0 /\ 10 * used_count >= 3 * total_sources
ScoreAboveThreshold(used_count, total_sources) ==
    total_sources > 0 /\ 10 * used_count > 3 * total_sources

HallucinationPhrases ==
    << <<"i", " ", "t", "h", "i", "n", "k">>,
       <<"i", " ", "b", "e", "l", "i", "e", "v", "e">>,
       <<"p", "r", "o", "b", "a", "b", "l", "y">>,
       <<"m", "i", "g", "h", "t", " ", "b", "e">>,
       <<"g", "e", "n", "e", "r", "a", "l", "l", "y", " ", "s", "p", "e", "a", "k", "i", "n", "g">>,
       <<"i", "n", " ", "m", "y", " ", "o", "p", "i", "n", "i", "o", "n">>,
       <<"t", "y", "p", "i", "c", "a", "l", "l", "y">> >>

Disclaimer == <<"d", "o", "n", "'", "t", " ", "h", "a", "v", "e", " ", "i", "n", "f", "o", "r", "m", "a", "t", "i", "o", "n">>

VerifyGrounding(response, sources) ==
    LET response_lower == StrLower(response)
        marked == [n \in DOMAIN sources |-> Marked(sources[n], response_lower)]
        IsUsed(m) == m.actually_used
        IsUnused(m) == ~m.actually_used
        used_sources == SelectSeq(marked, IsUsed)
        total_sources == Len(sources)
        used_count == Len(used_sources)
        hallucination_risk ==
            Cardinality({n \in DOMAIN HallucinationPhrases :
                            Find(HallucinationPhrases[n], response_lower)})
    IN  [used_sources |-> used_sources,
         unused_sources |-> SelectSeq(marked, IsUnused),
         grounding_score |-> IF total_sources > 0
                             THEN Round2(used_count, total_sources) ELSE 0,
         hallucination_risk |-> IF hallucination_risk < 2 THEN "low"
                                ELSE IF hallucination_risk < 4 THEN "medium"
                                ELSE "high",
         is_grounded |-> ScoreAboveThreshold(used_count, total_sources)
                            \/ Find(Disclaimer, response_lower)]

\* ---- the inputs: titles, and answers put together from fragments
TitleTrees == <<"D", "a", "t", "a", " ", "T", "r", "e", "e", "s">>
TitleAI == <<"A", "I">>
TitleSorting == <<"S", "o", "r", "t", "i", "n", "g", " ", "B", "i", "g", " ", "L", "i", "s", "t", "s">>
TitleGraph == <<"G", "r", "a", "p", "h", " ", "S", "e", "a", "r", "c", "h", " ", "N", "o", "t", "e", "s">>
Titles == {TitleTrees, TitleAI, TitleSorting, TitleGraph}

Fragments ==
    { <<"[", "S", "O", "U", "R", "C", "E", ":", " ", "d", "a", "t", "a", " ", "t", "r", "e", "e", "s", "]">>,
      <<"D", "a", "t", "a", " ", "t", "r", "e", "e", "s">>,
      <<"G", "r", "a", "p", "h", " ", "s", "e", "a", "r", "c", "h">>,
      <<"s", "o", "r", "t", "i", "n", "g">>,
      <<"I", " ", "d", "o", "n", "'", "t", " ", "h", "a", "v", "e", " ", "i", "n", "f", "o", "r", "m", "a", "t", "i", "o", "n">>,
      <<"I", " ", "t", "h", "i", "n", "k", ":", " ", "p", "a", "i", "n">> }

RECURSIVE AnswersUpTo(_)
AnswersUpTo(n) ==
    IF n = 0 THEN {<<>>}
    ELSE LET shorter == AnswersUpTo(n - 1)
         IN  shorter \cup {IF a = <<>> THEN f ELSE a \o <<" ">> \o f :
                              a \in shorter, f \in Fragments}

\* answers made of hedging phrases: one phrase said n times, and the first
\* n phrases of the list said once each
MaxHedges == 4
RECURSIVE Repeated(_, _)
Repeated(str, n) ==
    IF n = 0 THEN <<>>
    ELSE IF n = 1 THEN str ELSE Repeated(str, n - 1) \o <<" ">> \o str
RECURSIVE FirstPhrases(_)
FirstPhrases(n) ==
    IF n = 0 THEN <<>>
    ELSE IF n = 1 THEN HallucinationPhrases[1]
         ELSE FirstPhrases(n - 1) \o <<" ">> \o HallucinationPhrases[n]
HedgingAnswers ==
    {Repeated(HallucinationPhrases[3], n) : n \in 1..MaxHedges}
    \cup {FirstPhrases(n) : n \in 1..MaxHedges}

\* chat(): at most one requested file, max_chunks course sources and
\* max_articles Wikipedia articles
MaxChunksDefault == 8
MaxArticles == 2
MaxSources == 1 + MaxChunksDefault + MaxArticles

Source(title) == [title |-> title]

\* n sources of which the first n_first have one title and the rest another
Block(first, rest, n, n_first) ==
    [m \in 1..n |-> Source(IF m <= n_first THEN first ELSE rest)]

SourceLists ==
    SeqsUpTo({Source(t) : t \in Titles}, MaxListed)
    \cup {Block(TitleTrees, TitleSorting, n, n_first) :
             n \in 0..MaxSources, n_first \in 0..MaxSources}

\* chat() has the answer of the generation model and the sources it collected
InitGround ==
    /\ IndexIdle /\ SearchIdle /\ EmbedIdle
    /\ ground \in [pc : {"idle"}, response : AnswersUpTo(MaxFragments) \cup HedgingAnswers, sources : SourceLists, result : {[is_grounded |-> FALSE]}]
    /\ ChunkIdle /\ CodeIdle /\ RequestIdle /\ UploadIdle

\* chat() line 1025: grounding_result = self._verify_grounding(ai_message, sources)
DoVerifyGrounding ==
    /\ gpc = "idle"
    /\ ground' = [ground EXCEPT !.pc = "done", !.result = VerifyGrounding(gresponse, gsources)]
    /\ UNCHANGED <<idxVars, searchVars, embedVars, chunkVars, codeVars, requestVars, uploadVars>>

NextGround == DoVerifyGrounding

SpecGround == InitGround /\ [][NextGround]_vars

\* ------------------------------------------------ claims on SpecGround
\* comparison of two strings regardless of case
EqFold(a, b) ==
    Len(a) = Len(b) /\ \A n \in DOMAIN a : LowerChar(a[n]) = LowerChar(b[n])
OccursFold(needle, hay) ==
    \E n \in 1..(Len(hay) - Len(needle) + 1) :
        EqFold(SubSeq(hay, n, n + Len(needle) - 1), needle)

CitationOf(title) == <<"[", "S", "o", "u", "r", "c", "e", ":", " ">> \o title \o <<"]">>
LongWords(title) == {n \in DOMAIN Split(title) : Len(Split(title)[n]) > 3}
MajorityOfWords(title) ==
    2 * Cardinality({n \in LongWords(title) : OccursFold(Split(title)[n], gresponse)})
        > Cardinality(LongWords(title))
InUsedSources(title) ==
    \E n \in DOMAIN gresult.used_sources : gresult.used_sources[n].title = title

\* C12: a candidate with title T is in used_sources if and only if the
\* answer holds the citation [Source: T], or holds T itself, or holds more
\* than half of T's words of more than 3 characters, case being ignored.
C12_UsedIffCitedMentionedOrOverlap ==
    gpc = "done" =>
        \A n \in DOMAIN gsources :
            InUsedSources(gsources[n].title) <=>
                \/ OccursFold(CitationOf(gsources[n].title), gresponse)
                \/ OccursFold(gsources[n].title, gresponse)
                \/ MajorityOfWords(gsources[n].title)

\* One candidate is used through two of its three long words alone, one is
\* used through its citation, and a third, of which the answer has one long
\* word of two, is not used.
C12_Witness ==
    /\ gpc = "done"
    /\ \E n \in DOMAIN gsources :
           /\ gsources[n].title = TitleGraph
           /\ InUsedSources(TitleGraph)
           /\ ~OccursFold(TitleGraph, gresponse)
    /\ \E n \in DOMAIN gsources :
           /\ gsources[n].title = TitleSorting
           /\ ~InUsedSources(TitleSorting)
           /\ \E w \in LongWords(TitleSorting) :
                  OccursFold(Split(TitleSorting)[w], gresponse)

\* C13 as stated: the grounding_score returned is exactly
\* |used_sources| / |candidate_sources|, lies in [0, 1] and is 0 when there
\* is no candidate (score in hundredths).
C13_ScoreIsExactRatio ==
    gpc = "done" =>
        /\ gresult.grounding_score \in 0..100
        /\ Len(gsources) = 0 => gresult.grounding_score = 0
        /\ Len(gsources) > 0 =>
               gresult.grounding_score * Len(gsources) = 100 * Len(gresult.used_sources)

\* C13 as amended: the grounding_score returned is |used_sources| /
\* |candidate_sources| rounded to two decimal places (it differs from the
\* ratio by at most half a hundredth), lies in [0, 1] and is 0 when there is
\* no candidate.
C13_ScoreIsRoundedRatio ==
    gpc = "done" =>
        LET gap == gresult.grounding_score * Len(gsources) - 100 * Len(gresult.used_sources)
        IN  /\ gresult.grounding_score \in 0..100
            /\ Len(gsources) = 0 => gresult.grounding_score = 0
            /\ Len(gsources) > 0 =>
                   /\ 2 * gap <= Len(gsources)
                   /\ 2 * (0 - gap) <= Len(gsources)

\* Two of three candidates are used and the score returned is 0.67.
C13_Witness ==
    /\ gpc = "done"
    /\ Len(gsources) = 3 /\ Len(gresult.used_sources) = 2
    /\ gresult.grounding_score = 67

Occurrences(needle, hay) ==
    Cardinality({n \in 1..(Len(hay) - Len(needle) + 1) :
                    SubSeq(hay, n, n + Len(needle) - 1) = needle})
RECURSIVE HedgingOccurrences(_, _)
HedgingOccurrences(n, hay) ==
    IF n = 0 THEN 0
    ELSE Occurrences(HallucinationPhrases[n], hay) + HedgingOccurrences(n - 1, hay)

\* C27: hallucination_risk is 'low' when the answer has fewer than 2
\* occurrences of hedging phrases, 'medium' when it has 2 or 3 and 'high'
\* when it has 4 or more, an answer that says one hedging phrase four times
\* being 'high'.
C27_RiskByOccurrences ==
    gpc = "done" =>
        LET occurrences ==
                HedgingOccurrences(Len(HallucinationPhrases), StrLower(gresponse))
        IN  gresult.hallucination_risk =
                IF occurrences < 2 THEN "low"
                ELSE IF occurrences < 4 THEN "medium" ELSE "high"

\* =================================================================
\* Text chunkers (chunking_service.py chunk_text,
\*                content_processing_service.py _chunk_text)
\* =================================================================
\* A text is a sequence of runs [c |-> character, n |-> how many of it], no
\* two neighbouring runs of the same character: <<[c |-> "a", n |-> 500]>>
\* is "a" * 500.  Positions count characters from 0 as in Python.
MaxParas == 3

RECURSIVE StrLenFrom(_, _)
StrLenFrom(str, k) == IF k > Len(str) THEN 0 ELSE str[k].n + StrLenFrom(str, k + 1)
\* len(str)
StrLen(str) == StrLenFrom(str, 1)

\* position of the first character of run k
Off(str, k) == StrLen(SubSeq(str, 1, k - 1))

Max(a, b) == IF a >= b THEN a ELSE b

\* the runs of a sequence of runs, neighbours of one character merged
RECURSIVE Norm(_)
Norm(runs) ==
    IF Len(runs) = 0 THEN <<>>
    ELSE LET front == Norm(SubSeq(runs, 1, Len(runs) - 1))
             last == runs[Len(runs)]
         IN  IF last.n = 0 THEN front
             ELSE IF Len(front) > 0 /\ front[Len(front)].c = last.c
                  THEN [front EXCEPT ![Len(front)].n = @ + last.n]
                  ELSE Append(front, last)

\* a + b
Concat(a, b) == Norm(a \o b)

\* str[from:to] for 0 <= from
Slice(str, from, to) ==
    Norm([k \in DOMAIN str |->
             [c |-> str[k].c,
              n |-> Max(0, Min(to, Off(str, k) + str[k].n) - Max(from, Off(str, k)))]])

\* str[-k:]
Suffix(str, k) == Slice(str, Max(0, StrLen(str) - k), StrLen(str))

\* str[n] for a position of the text
CharAt(str, pos) ==
    str[CHOOSE k \in DOMAIN str : Off(str, k) <= pos /\ pos < Off(str, k) + str[k].n].c

\* str.strip(), str.lstrip()
Strip(str) ==
    LET solid == {k \in DOMAIN str : ~IsSpace(str[k].c)}
    IN  IF solid = {} THEN <<>>
        ELSE SubSeq(str, CHOOSE k \in solid : \A m \in solid : k <= m,
                         CHOOSE k \in solid : \A m \in solid : k >= m)
LStrip(str) ==
    LET solid == {k \in DOMAIN str : ~IsSpace(str[k].c)}
    IN  IF solid = {} THEN <<>>
        ELSE SubSeq(str, CHOOSE k \in solid : \A m \in solid : k <= m, Len(str))

\* re.split(r'\n\s*\n', text): a stretch of whitespace with two newlines or
\* more separates two pieces, from its first newline to its last one; the
\* pieces come back stripped and the empty ones are left out, as the loop of
\* chunk_text does with them.
Newlines(str, from, to) ==
    StrLen(SelectSeq(SubSeq(str, from, to), LAMBDA r : r.c = "\n"))
\* the last run of the stretch of whitespace that begins at run k
RECURSIVE StretchEnd(_, _)
StretchEnd(str, k) ==
    IF k < Len(str) /\ IsSpace(str[k + 1].c) THEN StretchEnd(str, k + 1) ELSE k
RECURSIVE ParagraphsFrom(_, _, _, _)
ParagraphsFrom(str, k, piece, acc) ==
    LET Closed == IF Strip(piece) = <<>> THEN acc ELSE Append(acc, Strip(piece))
    IN  IF k > Len(str) THEN Closed
        ELSE IF ~IsSpace(str[k].c)
             THEN ParagraphsFrom(str, k + 1, Append(piece, str[k]), acc)
             ELSE LET e == StretchEnd(str, k)
                  IN  IF Newlines(str, k, e) >= 2
                      THEN ParagraphsFrom(str, e + 1, <<>>, Closed)
                      ELSE ParagraphsFrom(str, e + 1, piece \o SubSeq(str, k, e), acc)
Paragraphs(str) == ParagraphsFrom(str, 1, <<>>, <<>>)

\* ---- ChunkingService.chunk_text
\* ChunkingService.__init__ defaults, and ContentProcessingService.__init__
DefaultChunkSize == 512
DefaultChunkOverlap == 50
DefaultMinChunkSize == 100
ProcChunkSize == 1000
ProcChunkOverlap == 200

Run(c, n) == [c |-> c, n |-> n]

\* Chunk(text, chunk_type, start_position, end_position); carried is not a
\* field of Chunk: it records how many characters at the head of text were
\* taken over from the previous chunk (overlap_text and the joining blank,
\* as far as strip() left them)
Chunk(text, start_position, end_position, carried) ==
    [text |-> text, start_position |-> start_position,
     end_position |-> end_position, carried |-> carried]

\* overlap_text = current_chunk[-overlap:] if len(current_chunk) > overlap else ""
OverlapText(current_chunk, cfg) ==
    IF StrLen(current_chunk) > cfg.chunk_overlap
    THEN Suffix(current_chunk, cfg.chunk_overlap) ELSE <<>>

\* current_chunk = overlap_text + " " + para
StartNewChunkWithoutPara(overlap_text, para) == Concat(overlap_text, <<Run(" ", 1)>>)
StartNewChunk(overlap_text, para) == Concat(Concat(overlap_text, <<Run(" ", 1)>>), para)

\* one pass of the loop over the paragraphs; st holds chunks, current_chunk,
\* current_start, position and the carried count of current_chunk
ChunkTextStep(st, para, cfg) ==
    LET spent == [st EXCEPT !.position = @ + StrLen(para) + 2]
    IN  IF StrLen(st.current_chunk) + StrLen(para) > cfg.chunk_size
           /\ st.current_chunk # <<>>
        THEN LET overlap_text == OverlapText(st.current_chunk, cfg)
             IN  [spent EXCEPT
                     !.chunks = Append(@, Chunk(Strip(st.current_chunk), st.current_start,
                                                st.position, st.carried)),
                     !.current_chunk = StartNewChunk(overlap_text, para),
                     !.current_start = st.position - StrLen(overlap_text),
                     !.carried = StrLen(LStrip(Concat(overlap_text, <<Run(" ", 1)>>)))]
        ELSE IF st.current_chunk # <<>>
             THEN [spent EXCEPT
                     !.current_chunk = Concat(Concat(@, <<Run("\n", 2)>>), para)]
             ELSE [spent EXCEPT !.current_chunk = para,
                                !.current_start = st.position,
                                !.carried = 0]

RECURSIVE ChunkTextLoop(_, _, _, _)
ChunkTextLoop(paragraphs, k, st, cfg) ==
    IF k > Len(paragraphs) THEN st
    ELSE ChunkTextLoop(paragraphs, k + 1, ChunkTextStep(st, paragraphs[k], cfg), cfg)

ChunkText(text, cfg) ==
    IF text = <<>> \/ StrLen(Strip(text)) < cfg.min_chunk_size
    THEN IF Strip(text) # <<>>
         THEN <<Chunk(Strip(text), 0, StrLen(text), 0)>>
         ELSE <<>>
    ELSE LET st == ChunkTextLoop(Paragraphs(Strip(text)), 1,
                       [chunks |-> <<>>, current_chunk |-> <<>>, current_start |-> 0,
                        position |-> 0, carried |-> 0], cfg)
         IN  IF Strip(st.current_chunk) # <<>>
             THEN Append(st.chunks, Chunk(Strip(st.current_chunk), st.current_start,
                                          st.position, st.carried))
             ELSE st.chunks

\* ---- ContentProcessingService._chunk_text
\* text.rfind(c1 + c2, start, end): the highest position, or -1
Rfind(text, c1, c2, start, end) ==
    LET At(k) ==
            IF c1 = c2
            THEN IF text[k].c = c1 /\ text[k].n >= 2
                    /\ Min(end - 2, Off(text, k) + text[k].n - 2) >= Max(start, Off(text, k))
                 THEN Min(end - 2, Off(text, k) + text[k].n - 2) ELSE -1
            ELSE IF text[k].c = c1 /\ k < Len(text) /\ text[k + 1].c = c2
                    /\ start <= Off(text, k) + text[k].n - 1
                    /\ Off(text, k) + text[k].n - 1 <= end - 2
                 THEN Off(text, k) + text[k].n - 1 ELSE -1
        found == {At(k) : k \in DOMAIN text} \cup {-1}
    IN  CHOOSE i \in found : \A j \in found : i >= j

\* where the window that begins at start ends
WindowEndAnyQuarter(text, start) ==
    LET end == start + ProcChunkSize
        para_break == Rfind(text, "\n", "\n", start, end)
        sentence_break == Rfind(text, ".", " ", start, end)
    IN  IF end < StrLen(text)
        THEN IF para_break > start + ProcChunkSize \div 4 THEN para_break + 2
             ELSE IF sentence_break > start + ProcChunkSize \div 4 THEN sentence_break + 2
             ELSE end
        ELSE end
WindowEnd(text, start) ==
    LET end == start + ProcChunkSize
        para_break == Rfind(text, "\n", "\n", start, end)
        sentence_break == Rfind(text, ".", " ", start, end)
    IN  IF end < StrLen(text)
        THEN IF para_break > start + ProcChunkSize \div 2 THEN para_break + 2
             ELSE IF sentence_break > start + ProcChunkSize \div 2 THEN sentence_break + 2
             ELSE end
        ELSE end

RECURSIVE ProcChunkLoop(_, _, _)
ProcChunkLoop(text, start, chunks) ==
    IF ~(start < StrLen(text)) THEN chunks
    ELSE LET end == WindowEnd(text, start)
             chunk_text == Strip(Slice(text, start, end))
             added == IF chunk_text # <<>>
                      THEN Append(chunks, [text |-> chunk_text, start |-> start,
                                           end |-> end, index |-> Len(chunks)])
                      ELSE chunks
         IN  IF end - ProcChunkOverlap >= StrLen(text) THEN added
             ELSE ProcChunkLoop(text, end - ProcChunkOverlap, added)

ProcChunkText(text) ==
    IF StrLen(text) <= ProcChunkSize
    THEN <<[text |-> text, start |-> 0, end |-> StrLen(text)]>>
    ELSE ProcChunkLoop(text, 0, <<>>)

\* ---- the inputs
ParaShort == <<Run("a", 50)>>
ParaHalf == <<Run("b", 500)>>
ParaFull == <<Run("c", 512)>>
ParaLong == <<Run("d", 1000)>>
ParaWords == <<Run("w", 100), Run(" ", 1), Run("v", 49)>>
ParaSentences == <<Run("t", 700), Run(".", 1), Run(" ", 1), Run("u", 400)>>
Paras == {ParaShort, ParaHalf, ParaFull, ParaLong, ParaWords, ParaSentences}

\* the paragraphs of a document, a blank line between two of them
RECURSIVE Joined(_)
Joined(paragraphs) ==
    IF Len(paragraphs) = 0 THEN <<>>
    ELSE IF Len(paragraphs) = 1 THEN paragraphs[1]
    ELSE Concat(Concat(Joined(SubSeq(paragraphs, 1, Len(paragraphs) - 1)),
                       <<Run("\n", 2)>>), paragraphs[Len(paragraphs)])
Texts == {Joined(ps) : ps \in SeqsUpTo(Paras, MaxParas)}

ChunkConfigs ==
    { [chunk_size |-> DefaultChunkSize, chunk_overlap |-> DefaultChunkOverlap,
       min_chunk_size |-> DefaultMinChunkSize],
      [chunk_size |-> ProcChunkSize, chunk_overlap |-> ProcChunkOverlap,
       min_chunk_size |-> DefaultMinChunkSize] }

InitChunk ==
    /\ IndexIdle /\ SearchIdle /\ EmbedIdle /\ GroundIdle /\ CodeIdle /\ RequestIdle /\ UploadIdle
    /\ chunker \in [text : Texts, cfg : ChunkConfigs, pc : {"idle"}, op : {"none"}, chunks : {<<>>}]

ChunkFrame == UNCHANGED <<idxVars, searchVars, embedVars, groundVars, codeVars, requestVars, uploadVars>>

\* ChunkingService(chunk_size, chunk_overlap, min_chunk_size).chunk_text(text)
DoChunkText ==
    /\ cpc = "idle"
    /\ chunker' = [chunker EXCEPT !.pc = "done", !.op = "chunk_text", !.chunks = ChunkText(ctext, ccfg)]
    /\ ChunkFrame

\* ContentProcessingService()._chunk_text(text)
DoProcChunkText ==
    /\ cpc = "idle"
    /\ chunker' = [chunker EXCEPT !.pc = "done", !.op = "_chunk_text", !.chunks = ProcChunkText(ctext)]
    /\ ChunkFrame

NextChunk == DoChunkText \/ DoProcChunkText

SpecChunk == InitChunk /\ [][NextChunk]_vars

\* ------------------------------------------------- claims on SpecChunk
\* a chunk without the characters carried over from the previous chunk
Uncarried(chunk) == Slice(chunk.text, chunk.carried, StrLen(chunk.text))

\* the paragraphs of the chunks, overlaps removed, in the order of the chunks
RECURSIVE ParagraphsOfChunks(_)
ParagraphsOfChunks(chunks) ==
    IF Len(chunks) = 0 THEN <<>>
    ELSE ParagraphsOfChunks(SubSeq(chunks, 1, Len(chunks) - 1))
             \o Paragraphs(Uncarried(chunks[Len(chunks)]))

\* C15: the chunks of chunk_text(T), each without the overlap carried over
\* from the chunk before it, hold the non-empty paragraphs of T in their
\* order, each exactly once.
C15_ParagraphsReconstructed ==
    (cpc = "done" /\ cop = "chunk_text") =>
        ParagraphsOfChunks(cchunks) = Paragraphs(ctext)

\* chunk_text has returned several chunks, of which one begins with
\* carried-over text and one holds two paragraphs of its own.
C15_Witness ==
    /\ cpc = "done" /\ cop = "chunk_text"
    /\ Len(cchunks) >= 2
    /\ \E n \in DOMAIN cchunks : cchunks[n].carried > 0
    /\ \E n \in DOMAIN cchunks : Len(Paragraphs(Uncarried(cchunks[n]))) = 2

\* the overlap the chunker of the call works with
OverlapOfCall == IF cop = "chunk_text" THEN ccfg.chunk_overlap ELSE ProcChunkOverlap
ChunkSizeOfCall == IF cop = "chunk_text" THEN ccfg.chunk_size ELSE ProcChunkSize

\* C16: every chunk after the first begins with the last O characters of
\* the chunk before it (with all of it, if it is shorter than O), O being
\* the overlap of the chunker.
C16_AdjacentChunksOverlap ==
    cpc = "done" =>
        \A n \in 1..(Len(cchunks) - 1) :
            LET tail == Suffix(cchunks[n].text, OverlapOfCall)
            IN  Slice(cchunks[n + 1].text, 0, StrLen(tail)) = tail

\* C19: with chunk_size 1000 and overlap 200, no chunk of a text whose
\* paragraphs have at most chunk_size characters each is longer than
\* chunk_size + overlap.
C19_ChunkLengthBounded ==
    (cpc = "done" /\ ChunkSizeOfCall = ProcChunkSize /\ OverlapOfCall = ProcChunkOverlap
        /\ \A k \in DOMAIN Paragraphs(ctext) :
               StrLen(Paragraphs(ctext)[k]) <= ProcChunkSize) =>
        \A n \in DOMAIN cchunks :
            StrLen(cchunks[n].text) <= ProcChunkSize + ProcChunkOverlap

\* The windows text[start:end] the loop of _chunk_text goes through, in
\* order, the loop being followed for at most `most` passes.
RECURSIVE WindowsFrom(_, _, _, _)
WindowsFrom(text, start, most, windows) ==
    IF ~(start < StrLen(text)) \/ Len(windows) >= most THEN windows
    ELSE LET end == WindowEnd(text, start)
             passed == Append(windows, [start |-> start, end |-> end])
         IN  IF end - ProcChunkOverlap >= StrLen(text) THEN passed
             ELSE WindowsFrom(text, end - ProcChunkOverlap, most, passed)
Windows(text) == WindowsFrom(text, 0, StrLen(text), <<>>)

\* the least step of the start offset the claim gives
LeastStep == ProcChunkSize \div 2 - ProcChunkOverlap

\* C30: _chunk_text terminates: on a text longer than chunk_size its loop
\* makes fewer than len(text) / (chunk_size/2 - overlap) + 1 passes, every
\* pass moving the start offset forward by more than chunk_size/2 - overlap
\* whichever break ends the window; the windows begin at 0, leave no gap
\* and reach the end of the text, the chunks returned being the windows
\* that are not blank.  A text of at most chunk_size is one window.
C30_WindowsAdvanceAndCover ==
    (cpc = "done" /\ cop = "_chunk_text") =>
        IF StrLen(ctext) <= ProcChunkSize
        THEN Len(cchunks) = 1 /\ cchunks[1].start = 0 /\ cchunks[1].end = StrLen(ctext)
        ELSE LET windows == Windows(ctext)
                 NotBlank(w) == Strip(Slice(ctext, w.start, w.end)) # <<>>
                 kept == SelectSeq(windows, NotBlank)
             IN  /\ Len(windows) >= 1
                 /\ (Len(windows) - 1) * LeastStep < StrLen(ctext)
                 /\ windows[1].start = 0
                 /\ \A n \in 1..(Len(windows) - 1) :
                        /\ windows[n + 1].start > windows[n].start + LeastStep
                        /\ windows[n + 1].start <= windows[n].end
                 /\ windows[Len(windows)].end >= StrLen(ctext)
                 /\ Len(cchunks) = Len(kept)
                 /\ \A n \in DOMAIN kept :
                        cchunks[n].start = kept[n].start /\ cchunks[n].end = kept[n].end

\* _chunk_text has returned after at least three passes, one window ending
\* at a paragraph break and one at a sentence break.
C30_Witness ==
    /\ cpc = "done" /\ cop = "_chunk_text"
    /\ Len(cchunks) >= 3
    /\ \E n \in DOMAIN cchunks :
           /\ cchunks[n].end < cchunks[n].start + ProcChunkSize
           /\ cchunks[n].end - 2 = Rfind(ctext, "\n", "\n", cchunks[n].start, cchunks[n].start + ProcChunkSize)
    /\ \E n \in DOMAIN cchunks :
           /\ cchunks[n].end < cchunks[n].start + ProcChunkSize
           /\ cchunks[n].end - 2 = Rfind(ctext, ".", " ", cchunks[n].start, cchunks[n].start + ProcChunkSize)

\* =================================================================
\* Code chunker (chunking_service.py, chunk_code)
\* =================================================================
\* A source file is the sequence of its lines.  A line has its number, its
\* indentation level and what it is: "def" / "class" (the header of a Python
\* function or class), "function" (a line a JavaScript function pattern
\* matches), "stmt" (any other code), "blank", "bad" (text Python cannot
\* parse), "deep" (an expression nested too deeply for the AST builder).
MaxSegments == 3
ChunkLines == 50
ChunkLinesOverlap == 10

Line(indent, k) == [no |-> 0, indent |-> indent, kind |-> k]

Solid(lines) == {n \in DOMAIN lines : lines[n].kind # "blank"}
Opens(line) == line.kind \in {"def", "class"}

\* the last non-blank line before line n, or 0
PrevSolid(lines, n) ==
    LET before == {m \in Solid(lines) : m < n}
    IN  IF before = {} THEN 0 ELSE CHOOSE m \in before : \A o \in before : m >= o

\* ast.parse(code): the indentation is that of a Python module
WellIndented(lines) ==
    /\ \A n \in Solid(lines) :
           LET prev == PrevSolid(lines, n)
           IN  IF prev = 0 THEN lines[n].indent = 0
               ELSE IF Opens(lines[prev]) THEN lines[n].indent = lines[prev].indent + 1
               ELSE lines[n].indent <= lines[prev].indent
    /\ \A n \in Solid(lines) :
           Opens(lines[n]) => \E m \in Solid(lines) : PrevSolid(lines, m) = n

\* ast.parse(code): a tree, or the exception it raises
AstParse(lines) ==
    IF (\E n \in DOMAIN lines : lines[n].kind \in {"bad", "function"})
          \/ ~WellIndented(lines)
    THEN "SyntaxError"
    ELSE IF \E n \in DOMAIN lines : lines[n].kind = "deep" THEN "RecursionError"
    ELSE "tree"

\* node.end_lineno of the def or class at line n: the last line of its body
EndLineno(lines, n) ==
    LET body == {m \in Solid(lines) :
                    m > n /\ \A o \in Solid(lines) :
                                 (n < o /\ o <= m) => lines[o].indent > lines[n].indent}
    IN  CHOOSE m \in body : \A o \in body : m >= o

\* CodeChunk(...) for lines[start_line:end_line] (0-based, end exclusive);
\* name stands for function_name / class_name: the line of the declaration
CodeChunk(lines, start_line, end_line, language, node_kind, name) ==
    [text |-> SubSeq(lines, start_line + 1, end_line), chunk_type |-> "code",
     start_position |-> start_line, end_position |-> end_line,
     metadata |-> [key \in {} |-> ""],
     language |-> language, kind |-> node_kind, name |-> name,
     line_start |-> start_line + 1, line_end |-> end_line]

\* code.strip() is not empty
HasCode(lines) == Solid(lines) # {}

\* the chunk of the whole file
WholeFile(lines, language) == CodeChunk(lines, 0, Len(lines), language, "file", 0)

\* _chunk_generic_code: for i in range(0, len(lines), chunk_lines - 10)
RECURSIVE GenericFrom(_, _, _, _)
GenericFrom(lines, language, i, chunks) ==
    IF i >= Len(lines) THEN chunks
    ELSE LET end == Min(i + ChunkLines, Len(lines))
         IN  GenericFrom(lines, language, i + ChunkLines - ChunkLinesOverlap,
                 IF HasCode(SubSeq(lines, i + 1, end))
                 THEN Append(chunks, CodeChunk(lines, i, end, language, "lines", 0))
                 ELSE chunks)
ChunkGenericCode(lines, language) == GenericFrom(lines, language, 0, <<>>)

\* the declarations of the tree in the order of ast.walk: breadth first,
\* that is level by level, each level in the order of the file
RECURSIVE WalkLevel(_, _, _)
WalkLevel(lines, level, chunks) ==
    IF \A n \in DOMAIN lines : lines[n].indent < level THEN chunks
    ELSE LET Declared(line) == Opens(line) /\ line.indent = level
             nodes == SelectSeq(lines, Declared)
         IN  WalkLevel(lines, level + 1,
                 chunks \o [m \in DOMAIN nodes |->
                     CodeChunk(lines, nodes[m].no - 1, EndLineno(lines, nodes[m].no),
                               "python", nodes[m].kind, nodes[m].no)])

\* _chunk_python_code
ChunkPythonCode(lines) ==
    LET parsed == AstParse(lines)
        chunks == WalkLevel(lines, 0, <<>>)
    IN  IF parsed = "SyntaxError" THEN Ok(ChunkGenericCode(lines, "python"))
        ELSE IF parsed # "tree" THEN Exc(<<parsed>>)
        ELSE IF chunks = <<>> /\ HasCode(lines) THEN Ok(<<WholeFile(lines, "python")>>)
        ELSE Ok(chunks)

\* _chunk_js_code
ChunkJsCode(lines, language) ==
    LET IsStart(line) == line.kind = "function"
        func_starts == SelectSeq(lines, IsStart)
        chunks == [fi \in DOMAIN func_starts |->
                      CodeChunk(lines, func_starts[fi].no - 1,
                                IF fi + 1 <= Len(func_starts)
                                THEN func_starts[fi + 1].no - 1 ELSE Len(lines),
                                language, "function", func_starts[fi].no)]
    IN  IF chunks = <<>> /\ HasCode(lines) THEN <<WholeFile(lines, language)>>
        ELSE chunks

\* chunk_code
ChunkCode(lines, language) ==
    IF language = "python" THEN ChunkPythonCode(lines)
    ELSE IF language \in {"javascript", "typescript"} THEN Ok(ChunkJsCode(lines, language))
    ELSE Ok(ChunkGenericCode(lines, language))

\* ---- the inputs: files put together from segments
Lines(n, line) == [m \in 1..n |-> line]
PySegments ==
    { <<Line(0, "stmt")>>,
      Lines(ChunkLines + ChunkLinesOverlap, Line(0, "stmt")),
      <<Line(0, "def"), Line(1, "stmt"), Line(1, "stmt")>>,
      <<Line(0, "class"), Line(1, "def"), Line(2, "stmt"), Line(0, "blank")>>,
      <<Line(0, "bad")>>,
      <<Line(0, "deep")>> }
JsSegments ==
    { <<Line(0, "stmt")>>,
      Lines(ChunkLines + ChunkLinesOverlap, Line(0, "stmt")),
      <<Line(0, "function"), Line(1, "stmt"), Line(0, "stmt")>>,
      <<Line(0, "blank")>> }

RECURSIVE Flatten(_)
Flatten(segments) ==
    IF Len(segments) = 0 THEN <<>>
    ELSE Flatten(SubSeq(segments, 1, Len(segments) - 1)) \o segments[Len(segments)]

\* code.split('\n') of the file made of the segments ("" has one empty line)
FileOf(segments) ==
    LET lines == IF Len(segments) = 0 THEN <<Line(0, "blank")>> ELSE Flatten(segments)
    IN  [n \in DOMAIN lines |-> [lines[n] EXCEPT !.no = n]]

InitCode ==
    /\ IndexIdle /\ SearchIdle /\ EmbedIdle /\ GroundIdle /\ ChunkIdle /\ RequestIdle /\ UploadIdle
    /\ \E language \in {"python", "javascript", "java"} :
         \E segments \in SeqsUpTo(IF language = "python" THEN PySegments ELSE JsSegments, MaxSegments) :
            coder = [lines |-> FileOf(segments), language |-> language, pc |-> "idle", result |-> [status |-> "none"],
                     stored |-> <<>>, search |-> [language |-> "", top_k |-> 0], found |-> [status |-> "none"]]

\* ChunkingService.chunk_code(code, language)
DoChunkCode ==
    /\ kpc = "idle"
    /\ coder' = [coder EXCEPT !.pc = "done", !.result = ChunkCode(klines, klanguage)]
    /\ UNCHANGED <<idxVars, searchVars, embedVars, groundVars, chunkVars, requestVars, uploadVars>>

\* chunk_data of index_content for chunk i (0-based): the metadata column
\* is json.dumps(getattr(chunk, 'metadata', {}) or {})
ChunkData(i, chunk) ==
    [chunk_index |-> i, chunk_text |-> chunk.text, chunk_type |-> chunk.chunk_type,
     start_position |-> chunk.start_position, end_position |-> chunk.end_position,
     metadata |-> chunk.metadata]

\* the rows the loop of index_content inserts: one per chunk, in order,
\* leaving out the chunks whose embedding or insert raised
StoredRows(chunks, raised) ==
    LET Inserted(row) == row.chunk_index \notin raised
    IN  SelectSeq([n \in DOMAIN chunks |-> ChunkData(n - 1, chunks[n])], Inserted)

\* a chunk of chunk_text(full_text, "text")
TextChunk == [text |-> <<>>, chunk_type |-> "text", start_position |-> 0, end_position |-> 0, metadata |-> [key \in {} |-> ""]]

\* index_content of the file, chunk_code having returned chunks: the chunks
\* are embedded and inserted, at most one of them raising
IndexCodeChunks ==
    /\ kpc = "done"
    /\ kresult.status = "ok" /\ kresult.value # <<>>
    /\ \E raised \in {{}} \cup {{i} : i \in 0..(Len(kresult.value) - 1)} :
           coder' = [coder EXCEPT !.pc = "indexed", !.stored = StoredRows(kresult.value, raised)]
    /\ UNCHANGED <<idxVars, searchVars, embedVars, groundVars, chunkVars, requestVars, uploadVars>>

\* index_content of the file, process_document having raised or returned
\* no chunk: the chunks are those of chunk_text on the fallback text, if any
IndexFallbackText ==
    /\ kpc = "done"
    /\ IF kresult.status = "ok" THEN kresult.value = <<>> ELSE TRUE
    /\ \E n \in 0..1 :
           coder' = [coder EXCEPT !.pc = "indexed", !.stored = StoredRows([m \in 1..n |-> TextChunk], {})]
    /\ UNCHANGED <<idxVars, searchVars, embedVars, groundVars, chunkVars, requestVars, uploadVars>>

\* language=None, and .get(key) without its key
None == "None"
CodeTopKs == {1, 5}
CodeLanguages == {"python", "javascript", "java", None}

\* chunk.get('metadata', {}).get(key, default)
MetadataGet(metadata, key, default) == IF key \in DOMAIN metadata THEN metadata[key] ELSE default

\* the first n elements of a list
FirstOf(list, n) == SubSeq(list, 1, Min(n, Len(list)))

\* RetrievalService.search_code(query, language, top_k).  The metadata
\* column comes back as the object that was dumped (decoded) or as the
\* dumped string, on which .get raises AttributeError.
search_code(language, top_k, decoded) ==
    /\ kpc = "indexed"
    /\ LET Selected(row) ==
               /\ row.chunk_type = "code"
               /\ language # None => MetadataGet(row.metadata, "language", None) = language
           data == FirstOf(SelectSeq(kstored, Selected), top_k * 3)
           code_results ==
               [n \in DOMAIN data |->
                   [code |-> data[n].chunk_text,
                    language |-> MetadataGet(data[n].metadata, "language", "unknown"),
                    function_name |-> MetadataGet(data[n].metadata, "function_name", None),
                    class_name |-> MetadataGet(data[n].metadata, "class_name", None),
                    similarity |-> 5,
                    line_start |-> MetadataGet(data[n].metadata, "line_start", None),
                    line_end |-> MetadataGet(data[n].metadata, "line_end", None)]]
       IN  coder' = [coder EXCEPT !.pc = "searched",
                                  !.search = [language |-> language, top_k |-> top_k],
                                  !.found = IF data # <<>> /\ ~decoded
                                            THEN Exc(<<"AttributeError">>)
                                            ELSE Ok(FirstOf(code_results, top_k))]
    /\ UNCHANGED <<idxVars, searchVars, embedVars, groundVars, chunkVars, requestVars, uploadVars>>

NextCode ==
    \/ DoChunkCode
    \/ IndexCodeChunks
    \/ IndexFallbackText
    \/ \E language \in CodeLanguages, top_k \in CodeTopKs, decoded \in BOOLEAN :
           search_code(language, top_k, decoded)

SpecCode == InitCode /\ [][NextCode]_vars

\* -------------------------------------------------- claims on SpecCode
\* C17: every non-blank line of the file passed to chunk_code is in one of
\* the chunks returned, the lines outside any function or class included.
C17_EveryLineCovered ==
    (kpc = "done" /\ kresult.status = "ok") =>
        \A n \in Solid(klines) :
            \E c \in DOMAIN kresult.value :
                \E m \in DOMAIN kresult.value[c].text :
                    kresult.value[c].text[m] = klines[n]

\* C18: chunk_code does not raise; when the parse of a Python file fails,
\* for whatever reason, it returns the chunks of the generic chunker.
C18_ParseFailureFallsBack ==
    kpc = "done" =>
        /\ kresult.status = "ok"
        /\ (klanguage = "python" /\ AstParse(klines) # "tree") =>
               kresult.value = ChunkGenericCode(klines, "python")

\* C24: the chunks chunk_code returns are non-empty and in document order:
\* no chunk starts on an earlier line than the chunk before it.
C24_NonEmptyDocumentOrder ==
    (kpc = "done" /\ kresult.status = "ok") =>
        /\ \A c \in DOMAIN kresult.value : HasCode(kresult.value[c].text)
        /\ \A c \in DOMAIN kresult.value :
               c > 1 => kresult.value[c - 1].line_start <= kresult.value[c].line_start

\* the chunks of the fixed-size line-count chunking: at most ChunkLines
\* lines each, consecutive chunks sharing ChunkLinesOverlap lines, every
\* line of the file in one of them
LineCountChunking(lines, chunks) ==
    /\ \A c \in DOMAIN chunks : Len(chunks[c].text) <= ChunkLines
    /\ \A c \in DOMAIN chunks :
           c > 1 => chunks[c - 1].line_end - chunks[c].line_start + 1 = ChunkLinesOverlap
    /\ \A n \in DOMAIN lines :
           \E c \in DOMAIN chunks : chunks[c].line_start <= n /\ n <= chunks[c].line_end

\* no function or class declaration is found in the file
NoDeclarations ==
    IF klanguage = "python" THEN \A n \in DOMAIN klines : ~Opens(klines[n])
    ELSE \A n \in DOMAIN klines : klines[n].kind # "function"

\* C25: when chunk_code finds no declaration in the code, or the parse
\* fails, the chunks returned are those of the fixed-size line-count
\* chunking.
C25_FallbackIsLineCount ==
    (/\ kpc = "done" /\ kresult.status = "ok"
     /\ (NoDeclarations \/ (klanguage = "python" /\ AstParse(klines) # "tree"))) =>
        LineCountChunking(klines, kresult.value)

\* the stored rows that hold code chunks
CodeRows == {n \in DOMAIN kstored : kstored[n].chunk_type = "code"}

\* C28: after index_content has indexed a source file, every stored code
\* chunk carries the metadata of the chunker (language, function_name or
\* class_name, line_start, line_end), and search_code with the language of
\* the file as filter returns chunks of the file.
C28_CodeMetadataStored ==
    /\ kpc \in {"indexed", "searched"} =>
           \A n \in CodeRows :
               LET chunk == kresult.value[kstored[n].chunk_index + 1]
                   metadata == kstored[n].metadata
               IN  /\ {"language", "line_start", "line_end"} \subseteq DOMAIN metadata
                   /\ metadata["language"] = chunk.language
                   /\ metadata["line_start"] = chunk.line_start
                   /\ metadata["line_end"] = chunk.line_end
                   /\ chunk.kind = "function" => "function_name" \in DOMAIN metadata
                   /\ chunk.kind = "class" => "class_name" \in DOMAIN metadata
    /\ (kpc = "searched" /\ ksearch.language = klanguage /\ CodeRows # {}) =>
           /\ kfound.status = "ok"
           /\ kfound.value # <<>>
           /\ \A n \in DOMAIN kfound.value : kfound.value[n].language = klanguage

\* ===================================================================
\* Search requests (models/search_schemas.py, routes/search.py)
\* ===================================================================
\* Floats of a request body are counted in hundredths.
Hundredths == 100

\* query: str = Field(..., min_length=3, max_length=500)
QueryMinLength == 3

QueryMaxLength == 500

\* top_k: int = Field(default=10, ge=1, le=50)
TopKGe == 1

TopKLe == 50

\* week: Optional[int] = Field(default=None, ge=1, le=52)
WeekGe == 1

WeekLe == 52

\* threshold, keyword_weight, semantic_weight: Field(..., ge=0, le=1)
UnitGe == 0

UnitLe == 1 * Hundredths

\* Field(min_length=..., max_length=...) on a str
StrFieldAnyLength(value, min_length, max_length) == StrLen(value) <= max_length

StrField(value, min_length, max_length) == StrLen(value) >= min_length /\ StrLen(value) <= max_length

\* Field(ge=..., le=...) on an int or a float
NumField(value, ge, le) == value >= ge /\ value <= le

\* Optional[int] = Field(default=None, ge=..., le=...)
OptField(value, ge, le) == value.set => NumField(value.v, ge, le)

\* SemanticSearchRequest
SemanticSearchRequest(body) ==
    /\ StrField(body.query, QueryMinLength, QueryMaxLength)
    /\ NumField(body.top_k, TopKGe, TopKLe)
    /\ NumField(body.threshold, UnitGe, UnitLe)
    /\ OptField(body.week, WeekGe, WeekLe)

\* HybridSearchRequest
HybridSearchRequest(body) ==
    /\ StrField(body.query, QueryMinLength, QueryMaxLength)
    /\ NumField(body.top_k, TopKGe, TopKLe)
    /\ NumField(body.keyword_weight, UnitGe, UnitLe)
    /\ NumField(body.semantic_weight, UnitGe, UnitLe)

\* the request model of a route
RequestModel(route, body) == IF route = "semantic" THEN SemanticSearchRequest(body) ELSE HybridSearchRequest(body)

\* status codes the routes answer
Http200 == 200

Http401 == 401

Http422 == 422

Http500 == 500

\* ---- requests sent
QueryStrings == {<<>>, <<Run("q", 1)>>, <<Run("q", QueryMinLength - 1)>>, <<Run("q", QueryMinLength)>>, <<Run("q", QueryMaxLength)>>, <<Run("q", QueryMaxLength + 1)>>}

TopKs == {0 - 1, 0, TopKGe, TopKLe, TopKLe + 1}

Units == {0 - 1, UnitGe, 30, 70, UnitLe, UnitLe + 1}

Weeks == {[set |-> FALSE]} \cup {[set |-> TRUE, v |-> w] : w \in {0, WeekGe, WeekLe + 1}}

SemanticBodies == [query : QueryStrings, top_k : TopKs, threshold : Units, week : Weeks, authenticated : BOOLEAN]

HybridBodies == [query : QueryStrings, top_k : TopKs, keyword_weight : Units, semantic_weight : Units, authenticated : BOOLEAN]

InitRequest ==
    /\ IndexIdle /\ SearchIdle /\ EmbedIdle /\ GroundIdle /\ ChunkIdle /\ CodeIdle /\ UploadIdle
    /\ \E route \in {"semantic", "hybrid"} :
         \E body \in (IF route = "semantic" THEN SemanticBodies ELSE HybridBodies) :
            request = [route |-> route, body |-> body, pc |-> "received", call |-> [fn |-> "none"], response |-> [status |-> 0]]

RequestFrame == UNCHANGED <<idxVars, searchVars, embedVars, groundVars, chunkVars, codeVars, uploadVars>>

\* Depends(get_current_user): no valid bearer token
Unauthorized ==
    /\ qpc = "received"
    /\ ~rbody.authenticated
    /\ request' = [request EXCEPT !.pc = "done", !.response = [status |-> Http401]]
    /\ RequestFrame

\* request: SemanticSearchRequest / request: HybridSearchRequest
ValidateBody ==
    /\ qpc = "received"
    /\ rbody.authenticated
    /\ IF RequestModel(rroute, rbody)
       THEN request' = [request EXCEPT !.pc = "handler"]
       ELSE request' = [request EXCEPT !.pc = "done", !.response = [status |-> Http422]]
    /\ RequestFrame

\* POST /search/semantic
semantic_search ==
    /\ qpc = "handler"
    /\ rroute = "semantic"
    /\ \E raised \in BOOLEAN :
         request' = [request EXCEPT !.pc = "done",
                                    !.call = [fn |-> "search_chunks", query |-> rbody.query, top_k |-> rbody.top_k],
                                    !.response = [status |-> IF raised THEN Http500 ELSE Http200]]
    /\ RequestFrame

\* POST /search/hybrid
hybrid_search ==
    /\ qpc = "handler"
    /\ rroute = "hybrid"
    /\ \E raised \in BOOLEAN :
         request' = [request EXCEPT !.pc = "done",
                                    !.call = [fn |-> "hybrid_search", query |-> rbody.query, top_k |-> rbody.top_k],
                                    !.response = [status |-> IF raised THEN Http500 ELSE Http200]]
    /\ RequestFrame

NextRequest ==
    \/ Unauthorized
    \/ ValidateBody
    \/ semantic_search
    \/ hybrid_search

SpecRequest == InitRequest /\ [][NextRequest]_vars

\* -------------------------------------------------- claims on SpecRequest
EmptyQuery == StrLen(rbody.query) = 0

NonPositiveK == rbody.top_k <= 0

OutOfUnit(value) == value < 0 \/ value > Hundredths

WeightOutOfRange == rroute = "hybrid" /\ (OutOfUnit(rbody.keyword_weight) \/ OutOfUnit(rbody.semantic_weight))

Http400 == 400

\* what the environment does to one upload: the file passes validation, the
\* OCR of a handwritten note succeeds and finds text, the storage upload and
\* the insert of the content row succeed, the background indexing raises at
\* its start, at an await, or not at all.
UploadEnvs == [valid : BOOLEAN, ocr : {"ok", "empty", "raise"}, storage : Outcomes, insert : Outcomes, indexing : {"ok", "raise_at_start", "raise_at_await"}]

InitUpload ==
    /\ IndexIdle /\ SearchIdle /\ EmbedIdle /\ GroundIdle /\ ChunkIdle /\ CodeIdle /\ RequestIdle
    /\ \E route \in {"upload", "handwritten"}, env \in UploadEnvs :
         upl = [route |-> route, env |-> env, pc |-> "received", row |-> FALSE, stored |-> FALSE, task |-> "none", response |-> [status |-> 0]]

UploadFrame == UNCHANGED <<idxVars, searchVars, embedVars, groundVars, chunkVars, codeVars, requestVars>>

Responded(u, code) == [u EXCEPT !.pc = "returned", !.response = [status |-> code, task |-> u.task]]

\* validate_file / IMAGE_EXTENSIONS, await file.read(), the size check and,
\* for a handwritten note, await ocr_service.extract_text_from_image
ReadFile ==
    /\ upl.pc = "received"
    /\ upl' = IF ~upl.env.valid THEN Responded(upl, Http400)
              ELSE IF upl.route = "handwritten" /\ upl.env.ocr = "raise" THEN Responded(upl, Http500)
              ELSE [upl EXCEPT !.pc = "read"]
    /\ UploadFrame

\* a handler that awaited the indexing instead of detaching it
AwaitedTask(u) == IF u.route = "handwritten" /\ u.env.ocr = "empty" THEN u ELSE [u EXCEPT !.task = IF u.env.indexing = "ok" THEN "completed" ELSE "failed"]

\* asyncio.create_task(background_indexing()); handwritten: if extracted_text
CreateTask(u) == IF u.route = "handwritten" /\ u.env.ocr = "empty" THEN u ELSE [u EXCEPT !.task = "scheduled"]

\* the rest of the handler runs without an await: storage upload, insert of
\* the content row, create_task, return {"success": True, ...}
StoreAndReturn ==
    /\ upl.pc = "read"
    /\ upl' = IF upl.env.storage = "raise" THEN Responded(upl, Http500)
              ELSE IF upl.env.insert = "raise" THEN Responded(upl, Http500)
              ELSE Responded(CreateTask([upl EXCEPT !.stored = TRUE, !.row = TRUE]), Http200)
    /\ UploadFrame

\* except Exception as e: print("Background indexing failed ...")
CaughtFailure(u) == [u EXCEPT !.task = "failed"]

\* the event loop starts background_indexing once the handler has returned:
\* process_content / process_handwritten_content up to its first await
TaskStart ==
    /\ upl.pc = "returned"
    /\ upl.task = "scheduled"
    /\ upl' = IF upl.env.indexing = "raise_at_start" THEN CaughtFailure(upl) ELSE [upl EXCEPT !.task = "running"]
    /\ UploadFrame

\* the task is resumed after its awaits and ends
TaskEnd ==
    /\ upl.task = "running"
    /\ upl' = IF upl.env.indexing = "raise_at_await" THEN CaughtFailure(upl) ELSE [upl EXCEPT !.task = "completed"]
    /\ UploadFrame

NextUpload ==
    \/ ReadFile
    \/ StoreAndReturn
    \/ TaskStart
    \/ TaskEnd

SpecUpload == InitUpload /\ [][NextUpload]_vars

\* -------------------------------------------------- claims on SpecUpload
\* C21: a successful upload response was returned while the indexing task
\* it created had not finished, and whatever becomes of the task later the
\* response stays the success response and the content row stays in place.
C21_IndexingDetached ==
    /\ upl.response.status = Http200 => upl.row /\ upl.response.task \in {"none", "scheduled"}
    /\ upl.task # "none" => upl.response.status = Http200 /\ upl.row

\* the background indexing of an uploaded document has failed
C21_Witness ==
    /\ upl.route = "upload"
    /\ upl.task = "failed"
    /\ upl.env.indexing = "raise_at_await"
    /\ upl.response = [status |-> Http200, task |-> "scheduled"]
    /\ upl.row

====
